---------------------------- MODULE Spec2Model ----------------------------
(***************************************************************************)
(* Persona-driven PDF analysis (Challenge_1b) as a state machine.          *)
(*                                                                         *)
(* Texts are TLA+ strings, handled character by character with Len,        *)
(* SubSeq and \o.  Relevance scores are exact decimals kept as integers in *)
(* hundredths (0.1 is 10, 1.0 is 100); importance scores, which multiply   *)
(* by 0.4 and 0.6, are kept in thousandths.  Binary floating-point         *)
(* rounding of the Python floats is not modelled.                          *)
(***************************************************************************)
EXTENDS Integers, Sequences, FiniteSets, TLC

VARIABLES
  sc_pc, sc_args, sc_ret,      \* one call of analyze_content_relevance
  cl_pc, cl_role, cl_ret,      \* one call of get_persona_type
  rk_pc, rk_args, rk_ret,      \* one call of rank_sections_by_importance
  tx_pc, tx_args, tx_ret,      \* one call of a function of pdf_processor.py or
                               \* text_refiner.py on a text
  pc,                \* process_all_collections: "loop", "analyze", "done"
  collection_index,  \* the position of the for loop in the list of collections
  output_file,       \* per collection: "missing" (no directory), "absent",
                     \* "old" (an earlier run's output) or "saved"
  log,               \* the outcome printed for each collection handled so far
  collection_dir,    \* the directory of the collection being processed
  result,            \* what the last analyze_collection did
  clock,             \* datetime.now()
  \* process_pdfs (Challenge_1a)
  pp_pc,             \* where process_pdfs stands in its loop body
  pdf_files,         \* what PdfReader makes of each file of INPUT_DIR
  pdf_index,         \* the position of the for loop in pdf_files
  pdf_output,        \* output_data of the file being processed
  output_dir,        \* per PDF: its file in OUTPUT_DIR
  pdf_log            \* the outcome printed for each file handled so far

text_vars == <<tx_pc, tx_args, tx_ret>>
call_vars == <<sc_pc, sc_args, sc_ret, cl_pc, cl_role, cl_ret, rk_pc, rk_args, rk_ret,
               tx_pc, tx_args, tx_ret>>
run_vars == <<pc, collection_index, output_file, log, collection_dir, result, clock>>
outline_vars == <<pp_pc, pdf_files, pdf_index, pdf_output, output_dir, pdf_log>>
vars == <<sc_pc, sc_args, sc_ret, cl_pc, cl_role, cl_ret, rk_pc, rk_args, rk_ret,
          tx_pc, tx_args, tx_ret, pc, collection_index, output_file, log, collection_dir, result, clock,
          pp_pc, pdf_files, pdf_index, pdf_output, output_dir, pdf_log>>

(***************************************************************************)
(* Strings                                                                 *)
(***************************************************************************)
Min(a, b) == IF a <= b THEN a ELSE b

Range(s) == {s[i] : i \in DOMAIN s}

UpperLetters == "ABCDEFGHIJKLMNOPQRSTUVWXYZ"
LowerLetters == "abcdefghijklmnopqrstuvwxyz"

CharAt(s, i) == SubSeq(s, i, i)

UpperChars == {CharAt(UpperLetters, i) : i \in 1..Len(UpperLetters)}
LowerChars == {CharAt(LowerLetters, i) : i \in 1..Len(LowerLetters)}
IsUpperChar(c) == c \in UpperChars
IsLowerChar(c) == c \in LowerChars

\* the lower-case letter of each upper-case letter
ToLower ==
  [c \in UpperChars |->
     CharAt(LowerLetters, CHOOSE i \in 1..Len(UpperLetters) : CharAt(UpperLetters, i) = c)]

\* a lower() that leaves upper-case letters as they are
LowerCharUnchanged(c) == c

\* str.lower() on one character
LowerChar(c) == IF IsUpperChar(c) THEN ToLower[c] ELSE c

\* str.lower(), character by character
RECURSIVE lower(_)
lower(s) ==
  IF s = "" THEN ""
  ELSE IF Len(s) = 1 THEN LowerChar(s)
  ELSE lower(SubSeq(s, 1, Len(s) \div 2)) \o lower(SubSeq(s, Len(s) \div 2 + 1, Len(s)))

\* the substring test `k in t`
Contains(k, t) ==
  \E i \in 1..(Len(t) - Len(k) + 1) : SubSeq(t, i, i + Len(k) - 1) = k

Whitespace == {" ", "\n", "\t"}

\* the elements of a set of numbers, in ascending order
Ascending(S) ==
  [k \in 1..Cardinality(S) |->
     CHOOSE x \in S : Cardinality({y \in S : y < x}) = k - 1]

\* str.split(): the maximal runs of non-whitespace characters, in order
split(s) ==
  LET IsSpace(i) == CharAt(s, i) \in Whitespace
      starts == Ascending({i \in 1..Len(s) : ~IsSpace(i) /\ (i = 1 \/ IsSpace(i - 1))})
      ends == Ascending({i \in 1..Len(s) :
                           ~IsSpace(i) /\ (i = Len(s) \/ IsSpace(i + 1))})
  IN  [k \in 1..Len(starts) |-> SubSeq(s, starts[k], ends[k])]

(***************************************************************************)
(* persona_analyzer.py: the persona categories and their keyword maps      *)
(***************************************************************************)
TRAVEL_PLANNER == "Travel Planner"
HR_PROFESSIONAL == "HR professional"
FOOD_CONTRACTOR == "Food Contractor"

PersonaType == {TRAVEL_PLANNER, HR_PROFESSIONAL, FOOD_CONTRACTOR}

persona_keywords ==
  [persona_type \in PersonaType |->
    CASE persona_type = TRAVEL_PLANNER ->
      <<
        [category |-> "destinations",
         keywords |-> <<"city", "town", "village", "coast", "beach", "mountain">>],
        [category |-> "activities",
         keywords |-> <<"visit", "explore", "tour", "experience", "enjoy", "discover">>],
        [category |-> "logistics",
         keywords |-> <<"hotel", "restaurant", "transport", "booking", "reservation">>],
        [category |-> "planning",
         keywords |-> <<"itinerary", "schedule", "plan", "organize", "arrange">>],
        [category |-> "group_travel",
         keywords |-> <<"group", "friends", "college", "budget", "shared">>],
        [category |-> "cultural",
         keywords |-> <<"culture", "tradition", "history", "local", "authentic">>]
      >>
      [] persona_type = HR_PROFESSIONAL ->
      <<
        [category |-> "forms",
         keywords |-> <<"form", "fillable", "interactive", "field", "input">>],
        [category |-> "compliance",
         keywords |-> <<"compliance", "legal", "regulation", "policy", "requirement">>],
        [category |-> "workflow",
         keywords |-> <<"workflow", "process", "approval", "signature", "tracking">>],
        [category |-> "onboarding",
         keywords |-> <<"onboarding", "new hire", "employee", "orientation", "training">>],
        [category |-> "documentation",
         keywords |-> <<"document", "record", "file", "archive", "store">>],
        [category |-> "automation",
         keywords |-> <<"automate", "efficiency", "streamline", "optimize">>]
      >>
      [] persona_type = FOOD_CONTRACTOR ->
      <<
        [category |-> "recipes",
         keywords |-> <<"recipe", "ingredient", "cook", "prepare", "make">>],
        [category |-> "vegetarian",
         keywords |-> <<"vegetarian", "vegan", "plant-based", "meatless">>],
        [category |-> "buffet",
         keywords |-> <<"buffet", "catering", "large group", "serving", "presentation">>],
        [category |-> "corporate",
         keywords |-> <<"corporate", "business", "professional", "formal">>],
        [category |-> "dietary",
         keywords |-> <<"gluten-free", "allergy", "dietary", "restriction">>],
        [category |-> "planning",
         keywords |-> <<"menu", "planning", "preparation", "timing", "logistics">>]
      >>
  ]

task_keywords ==
  [persona_type \in PersonaType |->
    CASE persona_type = TRAVEL_PLANNER ->
      <<
        [category |-> "trip_planning",
         keywords |-> <<"plan", "organize", "arrange", "schedule", "itinerary">>],
        [category |-> "group_coordination",
         keywords |-> <<"group", "friends", "college", "budget", "shared">>],
        [category |-> "destination_research",
         keywords |-> <<"destination", "location", "place", "area", "region">>],
        [category |-> "activity_planning",
         keywords |-> <<"activity", "attraction", "experience", "entertainment">>],
        [category |-> "logistics",
         keywords |-> <<"accommodation", "transport", "booking", "reservation">>]
      >>
      [] persona_type = HR_PROFESSIONAL ->
      <<
        [category |-> "form_creation",
         keywords |-> <<"create", "build", "design", "develop", "make">>],
        [category |-> "form_management",
         keywords |-> <<"manage", "organize", "track", "monitor", "maintain">>],
        [category |-> "onboarding_process",
         keywords |-> <<"onboarding", "new hire", "employee", "orientation">>],
        [category |-> "compliance_tracking",
         keywords |-> <<"compliance", "legal", "regulation", "requirement">>],
        [category |-> "workflow_automation",
         keywords |-> <<"automate", "workflow", "process", "efficiency">>]
      >>
      [] persona_type = FOOD_CONTRACTOR ->
      <<
        [category |-> "menu_planning",
         keywords |-> <<"menu", "plan", "design", "create", "develop">>],
        [category |-> "vegetarian_catering",
         keywords |-> <<"vegetarian", "catering", "buffet", "serving">>],
        [category |-> "corporate_event",
         keywords |-> <<"corporate", "business", "professional", "formal">>],
        [category |-> "dietary_accommodation",
         keywords |-> <<"dietary", "allergy", "restriction", "gluten-free">>],
        [category |-> "preparation_logistics",
         keywords |-> <<"prepare", "cook", "timing", "logistics">>]
      >>
  ]

\* the keywords of a keyword map, in the order the nested loops visit them
RECURSIVE KeywordList(_)
KeywordList(map) ==
  IF map = <<>> THEN <<>> ELSE Head(map).keywords \o KeywordList(Tail(map))

\* the keyword loops adding a keyword again when it occurs a second time
MatchedInPerOccurrence(keywords, text_lower) ==
  SelectSeq(keywords, LAMBDA keyword : Contains(keyword, text_lower))
    \o SelectSeq(keywords, LAMBDA keyword :
         \E i, j \in 1..(Len(text_lower) - Len(keyword) + 1) :
           /\ i + Len(keyword) <= j
           /\ SubSeq(text_lower, i, i + Len(keyword) - 1) = keyword
           /\ SubSeq(text_lower, j, j + Len(keyword) - 1) = keyword)

\* the keyword loops stopping at the first keyword found
MatchedInFirstOnly(keywords, text_lower) ==
  SubSeq(SelectSeq(keywords, LAMBDA keyword : Contains(keyword, text_lower)), 1,
         Min(1, Len(SelectSeq(keywords, LAMBDA keyword : Contains(keyword, text_lower)))))

\* the elements of a list of keywords that are substrings of text_lower
MatchedIn(keywords, text_lower) ==
  SelectSeq(keywords, LAMBDA keyword : Contains(keyword, text_lower))

IdentityWeight == 10
TaskWeight == 20
FreeTermWeight == 15
ScoreCap == 100

\* the length test on task tokens off by one: len(term) >= 3
MatchedTermsFrom3(task_terms, text_lower) ==
  SelectSeq(task_terms, LAMBDA term : Len(term) >= 3 /\ Contains(term, text_lower))

\* the task tokens that count: longer than 3 characters and in the text
MatchedTerms(task_terms, text_lower) ==
  SelectSeq(task_terms, LAMBDA term : Len(term) > 3 /\ Contains(term, text_lower))

\* relevance_score before it is normalised: what the three loops add up
AccumulatedScore(text, persona_type, task_description) ==
  LET text_lower == lower(text)
      task_lower == lower(task_description)
      identity == MatchedIn(KeywordList(persona_keywords[persona_type]), text_lower)
      task == MatchedIn(KeywordList(task_keywords[persona_type]), text_lower)
      terms == MatchedTerms(split(task_lower), text_lower)
  IN  [sum |-> Len(identity) * IdentityWeight + Len(task) * TaskWeight
                 + Len(terms) * FreeTermWeight,
       relevant_keywords |-> identity \o task \o terms]

\* the score left as accumulated, without the clamp
NormalizeScoreUnclamped(relevance_score) == relevance_score

\* relevance_score = min(relevance_score, 1.0)
NormalizeScore(relevance_score) == Min(relevance_score, ScoreCap)

analyze_content_relevance(text, persona_type, task_description) ==
  LET acc == AccumulatedScore(text, persona_type, task_description)
  IN  [score |-> NormalizeScore(acc.sum),
       keywords |-> Range(acc.relevant_keywords)]

\* get_persona_type without its final else: a role that matches nothing
\* falls off the end of the chain
get_persona_type_no_default(persona_role) ==
  LET role_lower == lower(persona_role)
  IN  IF Contains("travel", role_lower) \/ Contains("planner", role_lower)
        THEN TRAVEL_PLANNER
      ELSE IF Contains("hr", role_lower) \/ Contains("professional", role_lower)
        THEN HR_PROFESSIONAL
      ELSE IF Contains("food", role_lower) \/ Contains("contractor", role_lower)
        THEN FOOD_CONTRACTOR
      ELSE "None"

\* get_persona_type with the HR test moved in front of the travel test
get_persona_type_hr_first(persona_role) ==
  LET role_lower == lower(persona_role)
  IN  IF Contains("hr", role_lower) \/ Contains("professional", role_lower)
        THEN HR_PROFESSIONAL
      ELSE IF Contains("travel", role_lower) \/ Contains("planner", role_lower)
        THEN TRAVEL_PLANNER
      ELSE IF Contains("food", role_lower) \/ Contains("contractor", role_lower)
        THEN FOOD_CONTRACTOR
      ELSE TRAVEL_PLANNER

get_persona_type(persona_role) ==
  LET role_lower == lower(persona_role)
  IN  IF Contains("travel", role_lower) \/ Contains("planner", role_lower)
        THEN TRAVEL_PLANNER
      ELSE IF Contains("hr", role_lower) \/ Contains("professional", role_lower)
        THEN HR_PROFESSIONAL
      ELSE IF Contains("food", role_lower) \/ Contains("contractor", role_lower)
        THEN FOOD_CONTRACTOR
      ELSE TRAVEL_PLANNER  \* Default to travel planner if unknown

(***************************************************************************)
(* persona_analyzer.py: ranking of sections                                *)
(***************************************************************************)
\* dict.get(key, default) on a record
Get(rec, key, default) == IF key \in DOMAIN rec THEN rec[key] ELSE default

RECURSIVE ReverseSeq(_)
ReverseSeq(s) == IF s = <<>> THEN <<>> ELSE ReverseSeq(Tail(s)) \o <<Head(s)>>

\* x put into the ascending list sorted, behind every entry whose score is
\* not greater: the insertion step of a stable ascending sort
RECURSIVE InsertAscending(_, _)
InsertAscending(x, sorted) ==
  IF sorted = <<>> THEN <<x>>
  ELSE IF Head(sorted).score <= x.score
    THEN <<Head(sorted)>> \o InsertAscending(x, Tail(sorted))
    ELSE <<x>> \o sorted

RECURSIVE SortAscending(_, _)
SortAscending(rest, sorted) ==
  IF rest = <<>> THEN sorted
  ELSE SortAscending(Tail(rest), InsertAscending(Head(rest), sorted))

\* a descending sort that sorts ascending and then reverses the result
SortAscendingThenReverse(entries) == ReverseSeq(SortAscending(entries, <<>>))

\* list.sort(key=lambda x: x[1], reverse=True): the list is reversed, sorted
\* by a stable ascending sort and reversed again
SortByScoreReverse(entries) ==
  ReverseSeq(SortAscending(ReverseSeq(entries), <<>>))

TitleWeight == 4
ContentWeight == 6

\* importance_score with the two weights exchanged
ImportanceScoreSwapped(section, persona_type, task_description) ==
  analyze_content_relevance(Get(section, "title", ""), persona_type,
                            task_description).score * ContentWeight
    + analyze_content_relevance(Get(section, "content", ""), persona_type,
                                task_description).score * TitleWeight

\* importance_score of one section, in thousandths
ImportanceScore(section, persona_type, task_description) ==
  LET title == Get(section, "title", "")
      content == Get(section, "content", "")
      title_relevance ==
        analyze_content_relevance(title, persona_type, task_description).score
      content_relevance ==
        analyze_content_relevance(content, persona_type, task_description).score
  IN  title_relevance * TitleWeight + content_relevance * ContentWeight

\* the list of (section, importance_score) before it is sorted
ScoredSections(sections, persona_type, task_description) ==
  [i \in 1..Len(sections) |->
     [section |-> sections[i],
      score |-> ImportanceScore(sections[i], persona_type, task_description)]]

TopSections == 5

\* rank_sections_by_importance returning only the first 5 entries
rank_sections_by_importance_top5(sections, persona_type, task_description) ==
  SubSeq(SortByScoreReverse(ScoredSections(sections, persona_type, task_description)),
         1, Min(TopSections, Len(sections)))

\* rank_sections_by_importance sorting ascending and reversing afterwards
rank_sections_by_importance_reversed(sections, persona_type, task_description) ==
  SortAscendingThenReverse(ScoredSections(sections, persona_type, task_description))

rank_sections_by_importance(sections, persona_type, task_description) ==
  SortByScoreReverse(ScoredSections(sections, persona_type, task_description))

(***************************************************************************)
(* pdf_processor.py: text extraction and section detection                 *)
(***************************************************************************)
AllWhitespace(s) == \A i \in 1..Len(s) : CharAt(s, i) \in Whitespace

\* str.strip()
strip(s) ==
  IF AllWhitespace(s) THEN ""
  ELSE LET first == CHOOSE i \in 1..Len(s) :
                      /\ CharAt(s, i) \notin Whitespace
                      /\ \A j \in 1..(i - 1) : CharAt(s, j) \in Whitespace
           last == CHOOSE i \in 1..Len(s) :
                     /\ CharAt(s, i) \notin Whitespace
                     /\ \A j \in (i + 1)..Len(s) : CharAt(s, j) \in Whitespace
       IN  SubSeq(s, first, last)

\* str.split(sep) for a separator of one character: the pieces between the
\* separators, empty pieces included
SplitOn(s, sep) ==
  LET cuts == <<0>> \o Ascending({i \in 1..Len(s) : CharAt(s, i) = sep})
                   \o <<Len(s) + 1>>
  IN  [k \in 1..(Len(cuts) - 1) |-> SubSeq(s, cuts[k] + 1, cuts[k + 1] - 1)]

\* sep.join(parts)
RECURSIVE Join(_, _)
Join(sep, parts) ==
  IF parts = <<>> THEN ""
  ELSE IF Len(parts) = 1 THEN parts[1]
  ELSE parts[1] \o sep \o Join(sep, Tail(parts))

\* str.isupper(): no lower-case letter and at least one upper-case letter
isupper(s) ==
  /\ \A i \in 1..Len(s) : ~IsLowerChar(CharAt(s, i))
  /\ \E i \in 1..Len(s) : IsUpperChar(CharAt(s, i))

startswith(s, prefix) ==
  Len(s) >= Len(prefix) /\ SubSeq(s, 1, Len(prefix)) = prefix

endswith(s, suffix) ==
  Len(s) >= Len(suffix) /\ SubSeq(s, Len(s) - Len(suffix) + 1, Len(s)) = suffix

\* str.count(c) for one character
CountChar(s, c) == Cardinality({i \in 1..Len(s) : CharAt(s, i) = c})

HeaderKeywords ==
  {"guide", "overview", "introduction", "summary",
   "tips", "tricks", "instructions", "steps", "recipe",
   "ingredients", "method", "procedure", "workflow",
   "feature", "tool", "function", "destination", "activity"}

TitleCaseSmallWords ==
  {"a", "an", "the", "and", "or", "of", "in", "on", "at", "to", "for"}

MinHeaderLength == 3
AllCapsMinLength == 3
ShortTitleMaxWords == 8
ShortTitleMinLength == 10

\* header_indicators when the title-case test asks neither for an upper-case
\* first letter nor for a space in the line
HeaderIndicatorsAnyTitleCase(line, line_lower, words) ==
  \/ isupper(line) /\ Len(line) > AllCapsMinLength
  \/ startswith(line, "Chapter")
  \/ startswith(line, "Section")
  \/ startswith(line, "Part")
  \/ Len(words) <= ShortTitleMaxWords /\ Len(line) > ShortTitleMinLength
  \/ \E keyword \in HeaderKeywords : Contains(keyword, line_lower)
  \/ \A k \in DOMAIN words :
       \/ IsUpperChar(CharAt(words[k], 1))
       \/ lower(words[k]) \in TitleCaseSmallWords

\* header_indicators of a line of at least three characters
HeaderIndicators(line, line_lower, words) ==
  \/ isupper(line) /\ Len(line) > AllCapsMinLength
  \/ startswith(line, "Chapter")
  \/ startswith(line, "Section")
  \/ startswith(line, "Part")
  \/ Len(words) <= ShortTitleMaxWords /\ Len(line) > ShortTitleMinLength
  \/ \E keyword \in HeaderKeywords : Contains(keyword, line_lower)
  \/ /\ IsUpperChar(CharAt(line, 1))
     /\ CountChar(line, " ") >= 1
     /\ \A k \in DOMAIN words :
          \/ IsUpperChar(CharAt(words[k], 1))
          \/ lower(words[k]) \in TitleCaseSmallWords

\* _is_section_header once the line is stripped
IsHeaderLine(line) ==
  IF Len(line) < MinHeaderLength THEN FALSE
  ELSE HeaderIndicators(line, lower(line), split(line))

_is_section_header(raw_line) ==
  IF raw_line = "" THEN FALSE ELSE IsHeaderLine(strip(raw_line))

\* the sections of the lines of a page when the search for the next header
\* never stops the content: every section runs to the end of the page
SectionsOfLinesToPageEnd(lines, is_header) ==
  LET SectionAt(i) ==
        [title |-> strip(lines[i]),
         content |-> strip(Join("\n", SubSeq(lines, i + 1, Len(lines)))),
         start_line |-> i - 1]
      Headers ==
        Ascending({i \in 1..Len(lines) : strip(lines[i]) # "" /\ is_header[i]})
  IN  [k \in 1..Len(Headers) |-> SectionAt(Headers[k])]

\* the sections of the lines of a page, is_header telling for each line what
\* _is_section_header says of it once stripped: one section per header line,
\* its content the lines up to the next header line
SectionsOfLines(lines, is_header) ==
  LET ContentEnd(i) ==
        IF \E j \in (i + 1)..Len(lines) : is_header[j]
          THEN CHOOSE j \in (i + 1)..Len(lines) :
                 is_header[j] /\ \A k \in (i + 1)..(j - 1) : ~is_header[k]
          ELSE Len(lines) + 1
      SectionAt(i) ==
        [title |-> strip(lines[i]),
         content |-> strip(Join("\n", SubSeq(lines, i + 1, ContentEnd(i) - 1))),
         start_line |-> i - 1]
      HeaderLines ==
        Ascending({i \in 1..Len(lines) : strip(lines[i]) # "" /\ is_header[i]})
  IN  [k \in 1..Len(HeaderLines) |-> SectionAt(HeaderLines[k])]

HeadersOf(lines) == [j \in 1..Len(lines) |-> _is_section_header(strip(lines[j]))]

\* the sections of a page with one more section in front, untitled, for the
\* lines before the first header
SectionsOfWithPreamble(lines) ==
  IF lines # <<>> /\ ~_is_section_header(strip(lines[1]))
    THEN <<[title |-> "", content |-> "", start_line |-> 0]>>
           \o SectionsOfLines(lines, HeadersOf(lines))
    ELSE SectionsOfLines(lines, HeadersOf(lines))

SectionsOf(lines) == SectionsOfLines(lines, HeadersOf(lines))

extract_sections_from_text(text) == SectionsOf(SplitOn(text, "\n"))

(***************************************************************************)
(* Regular expressions of text_refiner.py, matched as re does: by          *)
(* backtracking, alternatives left to right and repetitions greedy.        *)
(* A pattern is a tree of records; Ends(node, text, i) lists the positions *)
(* just after a match of node that starts at position i, in the order in   *)
(* which backtracking tries them.  All patterns are used with              *)
(* re.IGNORECASE, so literals match in either case and [A-Z], [a-z] match  *)
(* any letter: findall matches on the lower-cased text, against literals   *)
(* written in lower case, and takes the groups from the text itself.       *)
(***************************************************************************)
Digits == "0123456789"
IsLetter(c) == IsUpperChar(c) \/ IsLowerChar(c)
DigitChars == {CharAt(Digits, i) : i \in 1..Len(Digits)}
IsDigit(c) == c \in DigitChars
IsWordChar(c) == IsLetter(c) \/ IsDigit(c) \/ c = "_"
SentenceEnd == {".", "!", "?"}

InClass(c, class) ==
  CASE class = "space" -> c \in Whitespace                  \* \s
    [] class = "digit" -> IsDigit(c)                        \* \d
    [] class = "letter" -> IsLetter(c)                      \* [A-Z], [a-z]
    [] class = "colon_space" -> c = ":" \/ c \in Whitespace  \* [:\s]
    [] class = "not_end" -> c \notin SentenceEnd            \* [^.!?]

Lit(str) == [t |-> "lit", s |-> str]
Run(class, min) == [t |-> "run", c |-> class, min |-> min]
Opt(node) == [t |-> "opt", r |-> node]
Star(node) == [t |-> "star", r |-> node]
Alt(nodes) == [t |-> "alt", a |-> nodes]
Cat(nodes) == [t |-> "cat", a |-> nodes]
WordBoundary == [t |-> "wb"]

\* the length of the longest run of characters of the class from position i
RunLength(text, i, class) ==
  IF \E j \in i..Len(text) : ~InClass(CharAt(text, j), class)
    THEN (CHOOSE j \in i..Len(text) :
            /\ ~InClass(CharAt(text, j), class)
            /\ \A k \in i..(j - 1) : InClass(CharAt(text, k), class)) - i
    ELSE Len(text) - i + 1

\* \b at position i: exactly one of the characters around it is a word character
AtWordBoundary(text, i) ==
  LET before == i > 1 /\ IsWordChar(CharAt(text, i - 1))
      after == i <= Len(text) /\ IsWordChar(CharAt(text, i))
  IN  before # after

RECURSIVE Ends(_, _, _), EndsCat(_, _, _), EndsAlt(_, _, _), EndsEach(_, _, _)
Ends(node, text, i) ==
  CASE node.t = "lit" ->
         IF i + Len(node.s) - 1 <= Len(text)
            /\ SubSeq(text, i, i + Len(node.s) - 1) = node.s
           THEN <<i + Len(node.s)>> ELSE <<>>
    [] node.t = "run" ->
         LET n == RunLength(text, i, node.c)
         IN  IF n < node.min THEN <<>>
             ELSE [k \in 1..(n - node.min + 1) |-> i + n - k + 1]
    [] node.t = "opt" -> Ends(node.r, text, i) \o <<i>>
    [] node.t = "star" ->
         EndsEach(SelectSeq(Ends(node.r, text, i), LAMBDA e : e > i), node, text) \o <<i>>
    [] node.t = "alt" -> EndsAlt(node.a, text, i)
    [] node.t = "cat" -> EndsCat(node.a, text, i)
    [] node.t = "wb" -> IF AtWordBoundary(text, i) THEN <<i>> ELSE <<>>

\* the ends of node from each of the start positions, in order
EndsEach(starts, node, text) ==
  IF starts = <<>> THEN <<>>
  ELSE Ends(node, text, Head(starts)) \o EndsEach(Tail(starts), node, text)

EndsAlt(nodes, text, i) ==
  IF nodes = <<>> THEN <<>>
  ELSE Ends(Head(nodes), text, i) \o EndsAlt(Tail(nodes), text, i)

EndsCat(nodes, text, i) ==
  IF nodes = <<>> THEN <<i>>
  ELSE EndsEach(Ends(Head(nodes), text, i), Cat(Tail(nodes)), text)

\* a match of prefix followed by the capturing group at position i: the
\* first way backtracking finds, as [found, from, to] with the group
\* being text[from .. to - 1]
RECURSIVE FirstGroup(_, _, _)
FirstGroup(prefix_ends, group, text) ==
  IF prefix_ends = <<>> THEN [found |-> FALSE, from |-> 0, to |-> 0]
  ELSE LET ends == Ends(group, text, Head(prefix_ends))
       IN  IF ends # <<>>
             THEN [found |-> TRUE, from |-> Head(prefix_ends), to |-> Head(ends)]
             ELSE FirstGroup(Tail(prefix_ends), group, text)

MatchAt(pattern, text, i) ==
  FirstGroup(Ends(pattern.prefix, text, i), pattern.group, text)

NoMatch == [found |-> FALSE, from |-> 0, to |-> 0]

\* the leftmost match that starts at position i or later
search(pattern, text, i) ==
  IF \A j \in i..Len(text) : ~MatchAt(pattern, text, j).found THEN NoMatch
  ELSE MatchAt(pattern, text,
               CHOOSE j \in i..Len(text) :
                 /\ MatchAt(pattern, text, j).found
                 /\ \A k \in i..(j - 1) : ~MatchAt(pattern, text, k).found)

\* the groups of match and of the matches after it, each search resuming
\* where the last match ended
RECURSIVE GroupsFrom(_, _, _, _)
GroupsFrom(pattern, text, text_lower, match) ==
  IF ~match.found THEN <<>>
  ELSE <<SubSeq(text, match.from, match.to - 1)>>
         \o GroupsFrom(pattern, text, text_lower, search(pattern, text_lower, match.to))

FindallIn(pattern, text, text_lower) ==
  GroupsFrom(pattern, text, text_lower, search(pattern, text_lower, 1))

\* re.findall(pattern, text, re.IGNORECASE): the groups of the matches found
\* scanning left to right
findall(pattern, text) == FindallIn(pattern, text, lower(text))

\* re.split(r'[.!?]+', text): the pieces between the runs of . ! and ?
split_sentences(text) ==
  IF text = "" THEN <<"">>
  ELSE
    LET IsEnd(i) == CharAt(text, i) \in SentenceEnd
        starts == {i \in 1..Len(text) : ~IsEnd(i) /\ (i = 1 \/ IsEnd(i - 1))}
        RECURSIVE Pieces(_)
        Pieces(i) ==
          IF \A j \in starts : j < i THEN <<>>
          ELSE LET j == CHOOSE j \in starts : j >= i /\ \A k \in starts : k >= i => j <= k
                   n == RunLength(text, j, "not_end")
               IN  <<SubSeq(text, j, j + n - 1)>> \o Pieces(j + n)
    IN  (IF IsEnd(1) THEN <<"">> ELSE <<>>) \o Pieces(1)
          \o (IF IsEnd(Len(text)) THEN <<"">> ELSE <<>>)

(***************************************************************************)
(* text_refiner.py: field extraction and actionable summaries              *)
(***************************************************************************)
max_summary_length == 500
TopSentences == 5

SepSpaces == Run("space", 1)                                        \* \s+
SepColon == Cat(<<Run("space", 0), Opt(Lit(":")), Run("space", 0)>>) \* \s*:?\s*
SepNumber ==                                                        \* \s+\d+[:\s]*
  Cat(<<Run("space", 1), Run("digit", 1), Run("colon_space", 0)>>)

\* ([A-Z][a-z]+(?:\s+[A-Z][a-z]+)*) under re.IGNORECASE
ProperNouns ==
  Cat(<<Run("letter", 2), Star(Cat(<<Run("space", 1), Run("letter", 2)>>))>>)
\* ([^.!?]+)
UpToSentenceEnd == Run("not_end", 1)

\* \b(?:w1|w2|...) sep (group)
Pattern(words, sep, group) ==
  [prefix |-> Cat(<<WordBoundary, Alt(words), sep>>), group |-> group]

\* word followed by an optional s:  words?
Plural(word) == Cat(<<Lit(word), Opt(Lit("s"))>>)

\* the regular expressions of _extract_travel_info, by field
travel_patterns ==
  [destinations |->
     Pattern(<<Lit("visit"), Lit("go to"), Lit("see"), Lit("explore")>>,
             SepSpaces, ProperNouns),
   activities |->
     Pattern(<<Lit("enjoy"), Lit("experience"), Lit("try"), Lit("discover")>>,
             SepSpaces, UpToSentenceEnd),
   tips |->
     Pattern(<<Lit("tip"), Lit("advice"), Lit("recommendation"),
               Lit("suggestion")>>, SepColon, UpToSentenceEnd),
   locations |->
     Pattern(<<Lit("in"), Lit("at"), Lit("near")>>, SepSpaces, ProperNouns)]

\* the regular expressions of _extract_hr_info, by field
hr_patterns ==
  [steps |->
     Pattern(<<Lit("step"), Lit("procedure"), Lit("process")>>,
             SepNumber, UpToSentenceEnd),
   features |->
     Pattern(<<Lit("feature"), Lit("function"), Lit("tool")>>,
             SepColon, UpToSentenceEnd),
   instructions |->
     Pattern(<<Lit("click"), Lit("select"), Lit("choose"), Lit("enable")>>,
             SepSpaces, UpToSentenceEnd),
   workflows |->
     Pattern(<<Lit("workflow"), Lit("process"), Lit("automation")>>,
             SepColon, UpToSentenceEnd)]

\* the regular expressions of _extract_food_info, by field
food_patterns ==
  [ingredients |->
     Pattern(<<Plural("ingredient"), Lit("you will need")>>,
             SepColon, UpToSentenceEnd),
   instructions |->
     Pattern(<<Plural("instruction"), Plural("direction"), Lit("method")>>,
             SepColon, UpToSentenceEnd),
   recipes |->
     Pattern(<<Lit("recipe"), Lit("dish"), Lit("meal")>>,
             SepColon, UpToSentenceEnd),
   preparation |->
     Pattern(<<Lit("prepare"), Lit("cook"), Lit("make"), Lit("serve")>>,
             SepSpaces, UpToSentenceEnd)]

\* re.findall of each pattern of the table on the text
FindallEach(patterns, text, text_lower) ==
  [field \in DOMAIN patterns |-> FindallIn(patterns[field], text, text_lower)]

_extract_travel_info(text) == FindallEach(travel_patterns, text, lower(text))

_extract_hr_info(text) == FindallEach(hr_patterns, text, lower(text))

_extract_food_info(text) == FindallEach(food_patterns, text, lower(text))

\* list[:n]
Take(list, n) == SubSeq(list, 1, Min(n, Len(list)))

\* [s.strip() for s in list]
StripEach(list) == [i \in 1..Len(list) |-> strip(list[i])]

\* the score _select_important_sentences gives one sentence
SentenceScore(sentence) ==
  LET length == Len(sentence)
      sentence_lower == lower(sentence)
      Hits(words) == Cardinality({w \in words : Contains(w, sentence_lower)})
  IN  (IF 20 <= length /\ length <= 100 THEN 2
       ELSE IF 10 <= length /\ length <= 150 THEN 1 ELSE 0)
      + 3 * Hits({"important", "key", "essential", "main", "primary", "best", "top"})
      + 2 * Hits({"create", "build", "make", "do", "use", "try", "visit", "explore"})
      + 2 * Hits({"recipe", "ingredient", "form", "workflow", "destination", "activity"})

_select_important_sentences(sentences) ==
  LET scored_sentences ==
        [i \in 1..Len(sentences) |->
           [sentence |-> sentences[i], score |-> SentenceScore(sentences[i])]]
      top == Take(SortByScoreReverse(scored_sentences), TopSentences)
  IN  [i \in 1..Len(top) |-> top[i].sentence]

\* the loop that appends sentences while the summary stays within max_length
RECURSIVE AppendSentences(_, _, _)
AppendSentences(important_sentences, summary, max_length) ==
  IF important_sentences = <<>> THEN summary
  ELSE IF Len(summary \o Head(important_sentences)) <= max_length
    THEN AppendSentences(Tail(important_sentences),
                         summary \o Head(important_sentences) \o ". ", max_length)
    ELSE summary

\* summarize_content without the test on the list of sentences: a text
\* without a sentence goes on to the test on its length
summarize_content_unchecked(text) ==
  IF text = "" THEN ""
  ELSE
    LET max_length == max_summary_length
        sentences == SelectSeq(StripEach(split_sentences(text)), LAMBDA x : x # "")
    IN  IF Len(text) <= max_length THEN text
        ELSE strip(AppendSentences(_select_important_sentences(sentences), "",
                                   max_length))

summarize_content(text) ==
  IF text = "" THEN ""
  ELSE
    LET max_length == max_summary_length
        sentences == SelectSeq(StripEach(split_sentences(text)), LAMBDA x : x # "")
    IN  IF sentences = <<>> THEN ""
        ELSE IF Len(text) <= max_length THEN text
        ELSE strip(AppendSentences(_select_important_sentences(sentences), "",
                                   max_length))

\* the fallback of the three summaries: the first two sentences longer than
\* 20 characters that contain one of the words
RelevantSentences(text, words) ==
  Take(SelectSeq(StripEach(split_sentences(text)),
                 LAMBDA sentence :
                   /\ Len(sentence) > 20
                   /\ LET sentence_lower == lower(sentence)
                      IN  \E i \in DOMAIN words : Contains(words[i], sentence_lower)),
       2)

\* the fallback once the relevant sentences are known
FromSentences(relevant_sentences, text) ==
  IF relevant_sentences # <<>>
    THEN Join(". ", relevant_sentences) \o "."
    ELSE summarize_content(text)

\* what the three summaries return from their summary_parts
FromParts(summary_parts, text, words) ==
  IF summary_parts # <<>> THEN Join(". ", summary_parts)
  ELSE FromSentences(RelevantSentences(text, words), text)

\* one entry of summary_parts, present when the field matched
Part(label, items) == IF items = <<>> THEN <<>> ELSE <<label \o Join(", ", items)>>

TravelParts(info) ==
  Part("Key destinations: ", Take(info.destinations, 3))
    \o Part("Recommended activities: ", Take(info.activities, 2))
    \o Part("Travel tips: ", Take(info.tips, 1))

_create_travel_summary(text) ==
  FromParts(TravelParts(_extract_travel_info(text)), text,
            <<"visit", "see", "explore", "enjoy", "experience", "discover",
              "try", "go to">>)

HrParts(info) ==
  Part("Key steps: ", Take(info.steps, 1))
    \o Part("Features: ", Take(info.features, 2))
    \o Part("Instructions: ", Take(info.instructions, 1))

_create_hr_summary(text) ==
  FromParts(HrParts(_extract_hr_info(text)), text,
            <<"create", "build", "design", "fill", "sign", "send", "track",
              "manage", "organize">>)

FoodParts(info) ==
  Part("Recipe: ", Take(info.recipes, 1))
    \o Part("Ingredients: ", Take(info.ingredients, 1))
    \o Part("Instructions: ", Take(info.instructions, 1))

_create_food_summary(text) ==
  FromParts(FoodParts(_extract_food_info(text)), text,
            <<"ingredient", "recipe", "cook", "prepare", "serve", "dish",
              "meal", "food">>)

create_actionable_summary(text, content_type) ==
  CASE content_type = "travel" -> _create_travel_summary(text)
    [] content_type = "hr" -> _create_hr_summary(text)
    [] content_type = "food" -> _create_food_summary(text)
    [] OTHER -> summarize_content(text)

(***************************************************************************)
(* text_refiner.py: what _clean_pdf_artifacts and _remove_noise_patterns   *)
(* look for in a text                                                      *)
(***************************************************************************)
\* re.search(node, text) finds a match
Occurs(node, text) == \E i \in 1..Len(text) : Ends(node, text, i) # <<>>

\* \b(?:Page|P)\s*\d+\b, matched in the case it is written in
PageNumberToken ==
  Cat(<<WordBoundary, Alt(<<Lit("Page"), Lit("P")>>), Run("space", 0),
        Run("digit", 1), WordBoundary>>)

\* the artifacts list, matched with re.IGNORECASE
artifacts ==
  <<Cat(<<Lit("adobe"), Run("space", 1), Lit("reader")>>),
    Cat(<<Lit("pdf"), Run("space", 1), Lit("document")>>),
    Cat(<<Lit("page"), Run("space", 1), Run("digit", 1), Run("space", 1),
          Lit("of"), Run("space", 1), Run("digit", 1)>>),
    Cat(<<Lit("©"), Run("space", 0), Run("digit", 4)>>),
    Cat(<<Lit("all"), Run("space", 1), Lit("rights"), Run("space", 1),
          Lit("reserved")>>),
    Lit("confidential"),
    Lit("draft"),
    Cat(<<Lit("adobe"), Run("space", 1), Lit("acrobat")>>),
    Cat(<<Lit("learn"), Run("space", 1), Lit("acrobat")>>),
    Cat(<<Lit("adobe"), Run("space", 1), Lit("pdf")>>)>>

\* the text holds something _clean_pdf_artifacts removes: a page-number
\* token or one of the artifacts
HasPdfArtifact(text) ==
  \/ Occurs(PageNumberToken, text)
  \/ \E k \in DOMAIN artifacts : Occurs(artifacts[k], lower(text))

\* https?://\S+
HasUrl(text) ==
  \E i \in 1..Len(text) :
    \E e \in Range(Ends(Cat(<<Lit("http"), Opt(Lit("s")), Lit("://")>>), text, i)) :
      e <= Len(text) /\ CharAt(text, e) \notin Whitespace

\* [A-Za-z0-9._%+-] and [A-Za-z0-9.-]
IsLocalChar(c) == IsLetter(c) \/ IsDigit(c) \/ c \in {".", "_", "%", "+", "-"}
IsDomainChar(c) == IsLetter(c) \/ IsDigit(c) \/ c \in {".", "-"}

\* \b[A-Za-z0-9._%+-]+@[A-Za-z0-9.-]+\.[A-Z|a-z]{2,}\b : the local part from
\* position a, the @ at position m, the last dot at position d, the match
\* ending just before position e
HasEmail(text) ==
  \E m \in 1..Len(text) :
    /\ CharAt(text, m) = "@"
    /\ \E a \in 1..(m - 1) :
         /\ AtWordBoundary(text, a)
         /\ \A k \in a..(m - 1) : IsLocalChar(CharAt(text, k))
    /\ \E d \in (m + 2)..Len(text) :
         /\ CharAt(text, d) = "."
         /\ \A k \in (m + 1)..(d - 1) : IsDomainChar(CharAt(text, k))
         /\ \E e \in (d + 3)..(Len(text) + 1) :
              /\ AtWordBoundary(text, e)
              /\ \A k \in (d + 1)..(e - 1) :
                   IsLetter(CharAt(text, k)) \/ CharAt(text, k) = "|"

\* the text holds something _remove_noise_patterns removes as an address
HasAddress(text) == HasUrl(text) \/ HasEmail(text)

(***************************************************************************)
(* pdf_processor.py: a collection directory.  A PDF file is what the       *)
(* parser does with it: open or extract_text raises, or every page yields  *)
(* its raw text, "" standing for a page without text.                      *)
(***************************************************************************)
\* the pages dict, as the list of its items in insertion order
extract_text_from_pdf(file) ==
  IF file.parse.raises THEN <<>>
  ELSE
    LET raw == file.parse.page_texts
        RECURSIVE Pages(_)
        Pages(page_num) ==
          IF page_num > Len(raw) THEN <<>>
          ELSE (IF raw[page_num] # ""
                  THEN <<[page_number |-> page_num, text |-> strip(raw[page_num])]>>
                  ELSE <<>>) \o Pages(page_num + 1)
    IN  Pages(1)

\* section['page_number'] = page_num for the sections of one page
WithPageNumber(sections, page_num) ==
  [i \in 1..Len(sections) |->
     [title |-> sections[i].title,
      content |-> sections[i].content,
      start_line |-> sections[i].start_line,
      page_number |-> page_num]]

\* the sections of all pages of one document
RECURSIVE SectionsOfPages(_)
SectionsOfPages(pages) ==
  IF pages = <<>> THEN <<>>
  ELSE WithPageNumber(extract_sections_from_text(Head(pages).text),
                      Head(pages).page_number)
         \o SectionsOfPages(Tail(pages))

\* collection_data[filename]
DocumentEntry(filename, pages) ==
  [filename |-> filename, pages |-> pages, sections |-> SectionsOfPages(pages)]

\* a loop over the files that ends at the first file the parser fails on
RECURSIVE ProcessListingStopAtFailure(_)
ProcessListingStopAtFailure(listing) ==
  IF listing = <<>> THEN <<>>
  ELSE IF ~endswith(lower(Head(listing).filename), ".pdf")
    THEN ProcessListingStopAtFailure(Tail(listing))
  ELSE IF Head(listing).parse.raises THEN <<>>
  ELSE <<DocumentEntry(Head(listing).filename, extract_text_from_pdf(Head(listing)))>>
         \o ProcessListingStopAtFailure(Tail(listing))

\* collection_data, as the list of its items in insertion order
RECURSIVE ProcessListing(_)
ProcessListing(listing) ==
  IF listing = <<>> THEN <<>>
  ELSE (IF endswith(lower(Head(listing).filename), ".pdf")
          THEN <<DocumentEntry(Head(listing).filename,
                               extract_text_from_pdf(Head(listing)))>>
          ELSE <<>>) \o ProcessListing(Tail(listing))

process_pdf_collection(collection) ==
  IF ~collection.pdf_dir THEN <<>> ELSE ProcessListing(collection.listing)

(***************************************************************************)
(* json_handler.py                                                         *)
(***************************************************************************)
required_input_fields == {"challenge_info", "documents", "persona", "job_to_be_done"}

\* a JSON object is a record and a JSON list a sequence; a JSON string s
\* that stands where an object is expected is the record JsonString(s)
JsonString(s) == [json_string |-> s]
IsJsonString(value) == DOMAIN value = {"json_string"}

\* key in value: a key of the dict, or a substring of the str
KeyIn(key, value) ==
  IF IsJsonString(value) THEN Contains(key, value.json_string)
  ELSE key \in DOMAIN value

\* TRUE when _validate_input_structure raises ValueError
ValidationFails(data) ==
  \/ \E field \in required_input_fields : field \notin DOMAIN data
  \/ ~KeyIn("challenge_id", data.challenge_info)
  \/ Len(data.documents) = 0
  \/ \E i \in DOMAIN data.documents : "filename" \notin DOMAIN data.documents[i]
  \/ ~KeyIn("role", data.persona)
  \/ ~KeyIn("task", data.job_to_be_done)

\* input_file.kind: "missing" (FileNotFoundError), "invalid_json"
\* (JSONDecodeError) or "json" with the parsed data
load_input_json(input_file) ==
  IF input_file.kind # "json" THEN [raised |-> TRUE]
  ELSE IF ValidationFails(input_file.data) THEN [raised |-> TRUE]
  ELSE [raised |-> FALSE, data |-> input_file.data]

\* create_output_structure that also writes the time of the run into a
\* second metadata field
create_output_structure_dated(input_data, now) ==
  [metadata |->
     [input_documents |->
        [i \in 1..Len(input_data.documents) |-> input_data.documents[i].filename],
      persona |-> Get(Get(input_data, "persona", <<>>), "role", ""),
      job_to_be_done |-> Get(Get(input_data, "job_to_be_done", <<>>), "task", ""),
      processing_timestamp |-> now,
      generated_at |-> now],
   extracted_sections |-> <<>>,
   subsection_analysis |-> <<>>]

create_output_structure(input_data, now) ==
  [metadata |->
     [input_documents |->
        [i \in 1..Len(input_data.documents) |-> input_data.documents[i].filename],
      persona |-> Get(Get(input_data, "persona", <<>>), "role", ""),
      job_to_be_done |-> Get(Get(input_data, "job_to_be_done", <<>>), "task", ""),
      processing_timestamp |-> now],
   extracted_sections |-> <<>>,
   subsection_analysis |-> <<>>]

add_extracted_section(output_data, document, section_title, importance_rank, page_number) ==
  [output_data EXCEPT !.extracted_sections =
     Append(@, [document |-> document, section_title |-> section_title,
                importance_rank |-> importance_rank, page_number |-> page_number])]

\* add_subsection_analysis that stores the page under the key 'page'
add_subsection_analysis_page_key(output_data, document, refined_text, page_number) ==
  [output_data EXCEPT !.subsection_analysis =
     Append(@, [document |-> document, refined_text |-> refined_text,
                page |-> page_number])]

add_subsection_analysis(output_data, document, refined_text, page_number) ==
  [output_data EXCEPT !.subsection_analysis =
     Append(@, [document |-> document, refined_text |-> refined_text,
                page_number |-> page_number])]

(***************************************************************************)
(* pdf_analyzer.py                                                         *)
(***************************************************************************)
_get_content_type(persona_type) ==
  CASE persona_type = TRAVEL_PLANNER -> "travel"
    [] persona_type = HR_PROFESSIONAL -> "hr"
    [] persona_type = FOOD_CONTRACTOR -> "food"
    [] OTHER -> "general"

\* isinstance(x, list), for the values the output record holds: sequences
\* and records
IsList(x) == DOMAIN x \subseteq Nat

required_fields == {"metadata", "extracted_sections", "subsection_analysis"}
required_metadata ==
  {"input_documents", "persona", "job_to_be_done", "processing_timestamp"}
required_section_fields ==
  {"document", "section_title", "importance_rank", "page_number"}
required_subsection_fields == {"document", "refined_text", "page_number"}

\* validate_output: each test that returns False, then True
validate_output(output_data) ==
  IF \E field \in required_fields : field \notin DOMAIN output_data THEN FALSE
  ELSE IF \E field \in required_metadata : field \notin DOMAIN output_data.metadata
    THEN FALSE
  ELSE IF ~IsList(output_data.extracted_sections) THEN FALSE
  ELSE IF \E i \in DOMAIN output_data.extracted_sections :
            \E field \in required_section_fields :
              field \notin DOMAIN output_data.extracted_sections[i]
    THEN FALSE
  ELSE IF ~IsList(output_data.subsection_analysis) THEN FALSE
  ELSE IF \E i \in DOMAIN output_data.subsection_analysis :
            \E field \in required_subsection_fields :
              field \notin DOMAIN output_data.subsection_analysis[i]
    THEN FALSE
  ELSE TRUE

\* all_sections: the sections of every document, tagged with the document
RECURSIVE AllSections(_)
AllSections(pdf_data) ==
  IF pdf_data = <<>> THEN <<>>
  ELSE LET doc == Head(pdf_data)
       IN  [i \in 1..Len(doc.sections) |->
              [title |-> doc.sections[i].title,
               content |-> doc.sections[i].content,
               start_line |-> doc.sections[i].start_line,
               page_number |-> doc.sections[i].page_number,
               document |-> doc.filename]]
           \o AllSections(Tail(pdf_data))

\* all_pages with each page numbered by its place among the pages kept
RECURSIVE AllPagesByPosition(_)
AllPagesByPosition(pdf_data) ==
  IF pdf_data = <<>> THEN <<>>
  ELSE LET doc == Head(pdf_data)
       IN  [i \in 1..Len(doc.pages) |->
              [document |-> doc.filename,
               page_number |-> i,
               text |-> doc.pages[i].text]]
           \o AllPagesByPosition(Tail(pdf_data))

\* all_pages: the pages of every document
RECURSIVE AllPages(_)
AllPages(pdf_data) ==
  IF pdf_data = <<>> THEN <<>>
  ELSE LET doc == Head(pdf_data)
       IN  [i \in 1..Len(doc.pages) |->
              [document |-> doc.filename,
               page_number |-> doc.pages[i].page_number,
               text |-> doc.pages[i].text]]
           \o AllPages(Tail(pdf_data))

\* the loop over ranked_sections[:5]
RECURSIVE AddTopSections(_, _, _)
AddTopSections(output_data, top, i) ==
  IF i > Len(top) THEN output_data
  ELSE AddTopSections(
         add_extracted_section(output_data, top[i].section.document,
                               top[i].section.title, i,
                               top[i].section.page_number),
         top, i + 1)

min_refined_length == 50
TopPages == 5

ScoredPages(all_pages, persona_type, task_description) ==
  [i \in 1..Len(all_pages) |->
     [page_info |-> all_pages[i],
      score |-> analyze_content_relevance(all_pages[i].text, persona_type,
                                          task_description).score]]

\* ranked_pages: (page_info, relevance_score), sorted
RankedPages(pdf_data, persona_type, task_description) ==
  SortByScoreReverse(ScoredPages(AllPages(pdf_data), persona_type, task_description))

\* one turn of the loop without the test on the length of the summary
AddPageUnfiltered(output_data, page_info, refined_text) ==
  IF refined_text # ""
    THEN add_subsection_analysis(output_data, page_info.document, refined_text,
                                 page_info.page_number)
    ELSE output_data

\* one turn of the loop: the page is added when its summary is long enough
AddPage(output_data, page_info, refined_text) ==
  IF refined_text # "" /\ Len(refined_text) > min_refined_length
    THEN add_subsection_analysis(output_data, page_info.document, refined_text,
                                 page_info.page_number)
    ELSE output_data

\* the loop over ranked_pages[:5]
RECURSIVE AddTopPages(_, _, _, _)
AddTopPages(output_data, top, i, content_type) ==
  IF i > Len(top) THEN output_data
  ELSE AddTopPages(
         AddPage(output_data, top[i].page_info,
                 create_actionable_summary(top[i].page_info.text, content_type)),
         top, i + 1, content_type)

\* _generate_subsection_analysis with the test on the summary made before
\* the cut to five pages
_generate_subsection_analysis_filter_first(output_data, pdf_data, persona_type, task_description) ==
  AddTopPages(output_data,
              Take(SelectSeq(RankedPages(pdf_data, persona_type, task_description),
                             LAMBDA e :
                               Len(create_actionable_summary(
                                     e.page_info.text,
                                     _get_content_type(persona_type))) > min_refined_length),
                   TopPages),
              1, _get_content_type(persona_type))

_generate_subsection_analysis(output_data, pdf_data, persona_type, task_description) ==
  AddTopPages(output_data,
              Take(RankedPages(pdf_data, persona_type, task_description), TopPages),
              1, _get_content_type(persona_type))

NoOutput ==
  [metadata |-> [input_documents |-> <<>>, persona |-> "", job_to_be_done |-> "",
                 processing_timestamp |-> 0],
   extracted_sections |-> <<>>,
   subsection_analysis |-> <<>>]

\* ranked_sections without the [:5]
TopRankedUncut(ranked_sections) == ranked_sections

\* ranked_sections[:5]
TopRanked(ranked_sections) == Take(ranked_sections, TopSections)

\* analyze_collection: raised, or the output record together with the
\* locals pdf_data and ranked_sections it was built from
\* analyze_collection from the ranking on
BuildOutput(input_data, pdf_data, ranked_sections, persona_type, task_description, now) ==
  [analysed |-> TRUE,
   raised |-> FALSE,
   output_data |->
     _generate_subsection_analysis(
       AddTopSections(create_output_structure(input_data, now),
                      TopRanked(ranked_sections), 1),
       pdf_data, persona_type, task_description),
   pdf_data |-> pdf_data,
   ranked_sections |-> ranked_sections]

\* analyze_collection once the input and the PDFs are read
AnalyzeDocuments(input_data, pdf_data, now) ==
  LET persona_role == Get(Get(input_data, "persona", <<>>), "role", "")
      persona == get_persona_type(persona_role)
      task == Get(Get(input_data, "job_to_be_done", <<>>), "task", "")
  IN  BuildOutput(input_data, pdf_data,
                  rank_sections_by_importance(AllSections(pdf_data), persona, task),
                  persona, task, now)

analyze_collection(collection, now) ==
  LET loaded == load_input_json(collection.input_file)
  IN  IF loaded.raised
        THEN [analysed |-> TRUE, raised |-> TRUE, output_data |-> NoOutput,
              pdf_data |-> <<>>, ranked_sections |-> <<>>]
        ELSE AnalyzeDocuments(loaded.data, process_pdf_collection(collection), now)

(***************************************************************************)
(* Inputs                                                                  *)
(***************************************************************************)
\* the sequences of at most n elements of S
SeqsUpTo(S, n) == UNION {[1..k -> S] : k \in 0..n}

\* ' '.join(words)
RECURSIVE JoinWords(_)
JoinWords(words) ==
  IF words = <<>> THEN ""
  ELSE IF Len(words) = 1 THEN words[1]
  ELSE words[1] \o " " \o JoinWords(Tail(words))

MaxFragments == 2
MaxRoleWords == 3
MaxRankSections == 6

ScenarioText == "Visit Paris and explore the Louvre. Book your hotel early."
ScenarioTask == "Plan a group trip"

ScoreFragments ==
  {"Visit Paris", "plan group budget", "itinerary",
   "New hire onboarding form", "FORMAT",
   "vegetarian buffet menu", "the quick trip"}

\* "plan" with another keyword in its middle
SplitKeywordText == "plcityan"
\* a text that ends with the start and starts with the end of "new hire"
WrapAroundText == "hire new "

ScoreTexts ==
  {JoinWords(w) : w \in SeqsUpTo(ScoreFragments, MaxFragments)}
    \cup {ScenarioText, SplitKeywordText, WrapAroundText}

ScoreTasks ==
  {"", ScenarioTask, "Prepare a vegetarian buffet menu plan",
   "Fill the new hire forms", "trip the TRIP"}

RoleWords ==
  {"Experienced", "Travel", "Planner", "HR", "Professional", "Food",
   "Contractor", "Accounts", "Payable", "Clerk"}

Roles == {JoinWords(w) : w \in SeqsUpTo(RoleWords, MaxRoleWords)}

\* two sections of equal importance for a travel planner, one above them
RankSectionPool ==
  {[title |-> "Visit Rome", content |-> "", start_line |-> 0],
   [title |-> "Hotel List", content |-> "", start_line |-> 2],
   [title |-> "Budget plan", content |-> "group itinerary", start_line |-> 4]}

RankPersonas == {TRAVEL_PLANNER}

(***************************************************************************)
(* SpecScore: one call of analyze_content_relevance on drawn arguments     *)
(***************************************************************************)
ClassifyIdle == cl_pc = "idle" /\ cl_role = "" /\ cl_ret = "None"
RankIdle ==
  /\ rk_pc = "idle"
  /\ rk_args = [sections |-> <<>>, persona_type |-> TRAVEL_PLANNER, task_description |-> ""]
  /\ rk_ret = <<>>
NoCollection ==
  [input_file |-> [kind |-> "missing"], pdf_dir |-> FALSE, listing |-> <<>>]
NoResult ==
  [analysed |-> FALSE, raised |-> FALSE, output_data |-> NoOutput,
   pdf_data |-> <<>>, ranked_sections |-> <<>>]
RunIdle ==
  /\ pc = "idle"
  /\ collection_index = 0
  /\ output_file = <<>>
  /\ log = <<>>
  /\ collection_dir = NoCollection
  /\ result = NoResult
  /\ clock = 0
OutlineIdle ==
  /\ pp_pc = "idle"
  /\ pdf_files = <<>>
  /\ pdf_index = 0
  /\ pdf_output = [title |-> "", outline |-> <<>>]
  /\ output_dir = <<>>
  /\ pdf_log = <<>>
TextIdle == tx_pc = "idle" /\ tx_args = [text |-> ""] /\ tx_ret = ""
ScoreIdle ==
  /\ sc_pc = "idle"
  /\ sc_args = [text |-> "", persona_type |-> TRAVEL_PLANNER, task_description |-> ""]
  /\ sc_ret = [score |-> 0, keywords |-> {}]

InitScore ==
  /\ sc_pc = "call"
  /\ sc_args \in [text : ScoreTexts, persona_type : PersonaType,
                  task_description : ScoreTasks]
  /\ sc_ret = [score |-> 0, keywords |-> {}]
  /\ ClassifyIdle
  /\ RankIdle
  /\ RunIdle
  /\ OutlineIdle
  /\ TextIdle

AnalyzeContentRelevance ==
  /\ sc_pc = "call"
  /\ sc_ret' = analyze_content_relevance(sc_args.text, sc_args.persona_type,
                                         sc_args.task_description)
  /\ sc_pc' = "return"
  /\ UNCHANGED <<sc_args, cl_pc, cl_role, cl_ret, rk_pc, rk_args, rk_ret>>
  /\ UNCHANGED run_vars
  /\ UNCHANGED outline_vars
  /\ UNCHANGED text_vars

NextScore == AnalyzeContentRelevance

SpecScore == InitScore /\ [][NextScore]_vars

(***************************************************************************)
(* SpecClassify: one call of get_persona_type on a drawn role              *)
(***************************************************************************)
InitClassify ==
  /\ cl_pc = "call"
  /\ cl_role \in Roles
  /\ cl_ret = "None"
  /\ ScoreIdle
  /\ RankIdle
  /\ RunIdle
  /\ OutlineIdle
  /\ TextIdle

GetPersonaType ==
  /\ cl_pc = "call"
  /\ cl_ret' = get_persona_type(cl_role)
  /\ cl_pc' = "return"
  /\ UNCHANGED <<cl_role, sc_pc, sc_args, sc_ret, rk_pc, rk_args, rk_ret>>
  /\ UNCHANGED run_vars
  /\ UNCHANGED outline_vars
  /\ UNCHANGED text_vars

NextClassify == GetPersonaType

SpecClassify == InitClassify /\ [][NextClassify]_vars

(***************************************************************************)
(* SpecRank: one call of rank_sections_by_importance on a drawn list       *)
(***************************************************************************)
InitRank ==
  /\ rk_pc = "call"
  /\ rk_args \in [sections : SeqsUpTo(RankSectionPool, MaxRankSections),
                  persona_type : RankPersonas,
                  task_description : {ScenarioTask}]
  /\ rk_ret = <<>>
  /\ ScoreIdle
  /\ ClassifyIdle
  /\ RunIdle
  /\ OutlineIdle
  /\ TextIdle

RankSectionsByImportance ==
  /\ rk_pc = "call"
  /\ rk_ret' = rank_sections_by_importance(rk_args.sections, rk_args.persona_type,
                                           rk_args.task_description)
  /\ rk_pc' = "return"
  /\ UNCHANGED <<rk_args, sc_pc, sc_args, sc_ret, cl_pc, cl_role, cl_ret>>
  /\ UNCHANGED run_vars
  /\ UNCHANGED outline_vars
  /\ UNCHANGED text_vars

NextRank == RankSectionsByImportance

SpecRank == InitRank /\ [][NextRank]_vars

(***************************************************************************)
(* SpecImportance: one call of rank_sections_by_importance on sections     *)
(* that may lack a title or a content                                      *)
(***************************************************************************)
MaxPartialSections == 2

PartialSectionPool ==
  {[title |-> "Group Itinerary", content |-> "Visit the old city"],
   [title |-> "Hotel List and Forms"],
   [content |-> "Plan the budget and prepare a recipe"],
   [start_line |-> 0]}

InitImportance ==
  /\ rk_pc = "call"
  /\ rk_args \in [sections : SeqsUpTo(PartialSectionPool, MaxPartialSections),
                  persona_type : PersonaType,
                  task_description : {ScenarioTask, ""}]
  /\ rk_ret = <<>>
  /\ ScoreIdle
  /\ ClassifyIdle
  /\ RunIdle
  /\ OutlineIdle
  /\ TextIdle

SpecImportance == InitImportance /\ [][NextRank]_vars

(***************************************************************************)
(* SpecRefine: one call of create_actionable_summary on a drawn text and   *)
(* content type                                                            *)
(***************************************************************************)
\* s written n times
RECURSIVE Repeat(_, _)
Repeat(s, n) == IF n = 0 THEN "" ELSE s \o Repeat(s, n - 1)

MaxRefineSentences == 2

ContentTypes == {"travel", "hr", "food", "general"}

RefineSentences ==
  {"Visit Rome and see the Forum.",
   "Enjoy local food and wine in the old city centre at night!",
   "Tip: book a hotel near the station early.",
   "Step 1: open the form and fill in every field.",
   "Click Save to create the workflow.",
   "Ingredients: rice, beans and two onions.",
   "Method: cook the rice for ten minutes and serve it hot.",
   "Notes"}

\* two activities, of 256 and 261 characters
TwoLongActivities ==
  "Enjoy " \o Repeat("a quiet walk along the old river bank and ", 6) \o "rest. "
    \o "Try " \o Repeat("a boat ride down the old river at night or ", 6) \o "not."

\* a sentence of exactly max_summary_length characters, then a short one
FullLengthSentence == Repeat("0123456789", 50) \o ". Short."

\* seven sentences, 540 characters, the highest-scoring ones not in front
SevenSentences ==
  "The hall is open from nine until five on each day of the week and on all public holidays. "
    \o "It is the best and the most important hall of the whole old town. "
    \o "A ticket costs ten euros for adults and five euros for children under twelve. "
    \o "The main gate is on the north side of the square, next to the old fountain. "
    \o "Bags are left at the entrance and must be collected before the hall closes. "
    \o "Make a plan and use the map to find the top floor with the key paintings. "
    \o "Guided walks through the hall begin at ten and at two and last about ninety minutes."

RefineTexts ==
  {JoinWords(w) : w \in SeqsUpTo(RefineSentences, MaxRefineSentences)}
    \cup {"   ", "...", TwoLongActivities, FullLengthSentence, SevenSentences}

InitRefine ==
  /\ tx_pc = "call"
  /\ tx_args \in [text : RefineTexts, content_type : ContentTypes]
  /\ tx_ret = ""
  /\ ScoreIdle
  /\ ClassifyIdle
  /\ RankIdle
  /\ RunIdle
  /\ OutlineIdle

CreateActionableSummary ==
  /\ tx_pc = "call"
  /\ DOMAIN tx_args = {"text", "content_type"}
  /\ tx_ret' = create_actionable_summary(tx_args.text, tx_args.content_type)
  /\ tx_pc' = "return"
  /\ UNCHANGED <<tx_args, sc_pc, sc_args, sc_ret, cl_pc, cl_role, cl_ret,
                 rk_pc, rk_args, rk_ret>>
  /\ UNCHANGED run_vars
  /\ UNCHANGED outline_vars

NextRefine == CreateActionableSummary

SpecRefine == InitRefine /\ [][NextRefine]_vars

(***************************************************************************)
(* SpecSegment: one call of extract_sections_from_text on a drawn page     *)
(***************************************************************************)
MaxPageLines == 4

\* header lines (the second with blanks around it), lines that are no
\* header, and a blank line
PageLines ==
  {"Visit Rome and Ostia", "  Hotel List and Budget  ", "we go by bus", "see it", "   "}

PageTexts == {Join("\n", l) : l \in SeqsUpTo(PageLines, MaxPageLines)}

InitSegment ==
  /\ tx_pc = "call"
  /\ tx_args \in [text : PageTexts]
  /\ tx_ret = <<>>
  /\ ScoreIdle
  /\ ClassifyIdle
  /\ RankIdle
  /\ RunIdle
  /\ OutlineIdle

ExtractSectionsFromText ==
  /\ tx_pc = "call"
  /\ DOMAIN tx_args = {"text"}
  /\ tx_ret' = extract_sections_from_text(tx_args.text)
  /\ tx_pc' = "return"
  /\ UNCHANGED <<tx_args, sc_pc, sc_args, sc_ret, cl_pc, cl_role, cl_ret,
                 rk_pc, rk_args, rk_ret>>
  /\ UNCHANGED run_vars
  /\ UNCHANGED outline_vars

NextSegment == ExtractSectionsFromText

SpecSegment == InitSegment /\ [][NextSegment]_vars

(***************************************************************************)
(* SpecCore: one call of the scorer, of the segmenter or of the refiner,   *)
(* on a text that is empty, blank or neither                               *)
(***************************************************************************)
\* the empty string and strings of white space only
BlankTexts == {"", " ", "   ", "\n", " \n \n", "\t"}

CoreTexts ==
  BlankTexts \cup {ScenarioText, "Visit Rome and Ostia\nwe go by bus",
                   "Tip: book a hotel near the station early and plan your budget."}

InitCoreScore ==
  /\ sc_pc = "call"
  /\ sc_args \in [text : CoreTexts, persona_type : PersonaType,
                  task_description : ScoreTasks]
  /\ sc_ret = [score |-> 0, keywords |-> {}]
  /\ TextIdle

InitCoreSegment ==
  /\ tx_pc = "call"
  /\ tx_args \in [text : CoreTexts]
  /\ tx_ret = <<>>
  /\ ScoreIdle

InitCoreRefine ==
  /\ tx_pc = "call"
  /\ tx_args \in [text : CoreTexts, content_type : ContentTypes]
  /\ tx_ret = ""
  /\ ScoreIdle

InitCore ==
  /\ InitCoreScore \/ InitCoreSegment \/ InitCoreRefine
  /\ ClassifyIdle
  /\ RankIdle
  /\ RunIdle
  /\ OutlineIdle

NextCore ==
  \/ AnalyzeContentRelevance
  \/ ExtractSectionsFromText
  \/ CreateActionableSummary

SpecCore == InitCore /\ [][NextCore]_vars

(***************************************************************************)
(* SpecHeader: one call of _is_section_header on a drawn line              *)
(***************************************************************************)
MaxLineWords == 2

LineWords ==
  {"Notes", "the", "Cat", "NATO", "Part", "recipes", "of", "x", "going"}

\* lines of one and two words, and some longer ones
CandidateLines ==
  {JoinWords(w) : w \in SeqsUpTo(LineWords, MaxLineWords)}
    \cup {"  The Cat  ", "OK", "A B", "ABC", "Chapter", "Sectional", "apart",
          "we go there", "twelve chars", "one two three four five six seven eight nine",
          "a b c d e f g h", "Cat and Dog", "Cat And dog", "Cat AND THE Dog",
          "1. Cat", "Stool", "no way out"}

InitHeader ==
  /\ tx_pc = "call"
  /\ tx_args \in [line : CandidateLines]
  /\ tx_ret = FALSE
  /\ ScoreIdle
  /\ ClassifyIdle
  /\ RankIdle
  /\ RunIdle
  /\ OutlineIdle

IsSectionHeader ==
  /\ tx_pc = "call"
  /\ tx_ret' = _is_section_header(tx_args.line)
  /\ tx_pc' = "return"
  /\ UNCHANGED <<tx_args, sc_pc, sc_args, sc_ret, cl_pc, cl_role, cl_ret,
                 rk_pc, rk_args, rk_ret>>
  /\ UNCHANGED run_vars
  /\ UNCHANGED outline_vars

NextHeader == IsSectionHeader

SpecHeader == InitHeader /\ [][NextHeader]_vars

(***************************************************************************)
(* Challenge_1a/process_pdfs.py: the outline extractor.  A PDF file is     *)
(* what PdfReader does with it: it raises, or it gives the metadata title  *)
(* ("" when there is none) and the text of each page ("" where             *)
(* extract_text() finds none).                                             *)
(***************************************************************************)
\* str.splitlines(), for texts whose only line break is \n
splitlines(text) ==
  IF text = "" THEN <<>>
  ELSE IF CharAt(text, Len(text)) = "\n"
    THEN SplitOn(SubSeq(text, 1, Len(text) - 1), "\n")
    ELSE SplitOn(text, "\n")

\* ^\d+(\.\d+)*\s
NumberedPrefix ==
  Cat(<<Run("digit", 1), Star(Cat(<<Lit("."), Run("digit", 1)>>)), Run("space", 1)>>)

is_heading(text) ==
  IF strip(text) = "" THEN FALSE
  ELSE isupper(text) \/ Ends(NumberedPrefix, text, 1) # <<>>

H1MaxLength == 20
H2MaxLength == 40

\* the level of a heading of the length, with both thresholds taken inclusive
LevelInclusive(length) ==
  IF length <= H1MaxLength THEN "H1"
  ELSE IF length <= H2MaxLength THEN "H2"
  ELSE "H3"

\* the level of a heading of the length
Level(length) ==
  IF length < H1MaxLength THEN "H1"
  ELSE IF length < H2MaxLength THEN "H2"
  ELSE "H3"

\* the entries of the lines of one page, i being the index enumerate gives it
RECURSIVE OutlineOfLines(_, _)
OutlineOfLines(lines, i) ==
  IF lines = <<>> THEN <<>>
  ELSE (IF is_heading(Head(lines))
          THEN <<[level |-> Level(Len(strip(Head(lines)))),
                  text |-> strip(Head(lines)),
                  page |-> i + 1]>>
          ELSE <<>>) \o OutlineOfLines(Tail(lines), i)

\* the loop over enumerate(reader.pages), from index i on
RECURSIVE OutlineFrom(_, _)
OutlineFrom(pages, i) ==
  IF i >= Len(pages) THEN <<>>
  ELSE OutlineOfLines(splitlines(pages[i + 1]), i) \o OutlineFrom(pages, i + 1)

extract_outline(reader) == OutlineFrom(reader.pages, 0)

\* the first line of the text that is not blank, stripped
FirstLine(lines) ==
  IF \A k \in DOMAIN lines : strip(lines[k]) = "" THEN "Untitled Document"
  ELSE strip(lines[CHOOSE k \in DOMAIN lines :
                     /\ strip(lines[k]) # ""
                     /\ \A j \in 1..(k - 1) : strip(lines[j]) = ""])

\* extract_title: reader.pages[0] raises IndexError when there is no page
extract_title(reader) ==
  IF reader.title # "" THEN [raised |-> FALSE, title |-> strip(reader.title)]
  ELSE IF reader.pages = <<>> THEN [raised |-> TRUE]
  ELSE [raised |-> FALSE, title |-> FirstLine(splitlines(reader.pages[1]))]

\* pdf_file.stem of a name that ends in .pdf
Stem(name) == SubSeq(name, 1, Len(name) - 4)

(***************************************************************************)
(* SpecOutline: process_pdfs over the PDF files of the input directory     *)
(***************************************************************************)
MaxPdfPages == 2

\* upper-case lines of 19, 20, 39 and 40 characters
Line19 == "ABCDEFGHIJKLMNOPQRS"
Line20 == "ABCDEFGHIJ KLMNOPQRS"
Line39 == "ABCDEFGHIJ KLMNOPQRS ABCDEFGHI KLMNOPQR"
Line40 == "ABCDEFGHIJ KLMNOPQRS ABCDEFGHIJ KLMNOPQR"

\* a page of headings and other lines, a page of headings at the four
\* lengths, and a page without text
OutlinePages ==
  {"INTRODUCTION\nwe go by bus\n1.2 Scope of the work here\n  TRAVEL  \n   \n1. Intro\n 2 Indented\n3",
   "  " \o Line19 \o " \n" \o Line20 \o "\n" \o Line39 \o "\n" \o Line40,
   ""}

\* what PdfReader makes of a file; conforms tells whether the record made
\* from it is valid against the schema read from SCHEMA_PATH
Readers ==
  {[raises |-> TRUE, title |-> "", pages |-> <<>>, conforms |-> TRUE],
   [raises |-> FALSE, title |-> " City Guide ", pages |-> <<>>, conforms |-> TRUE],
   [raises |-> FALSE, title |-> " City Guide ", pages |-> <<"", "1 Rome">>,
    conforms |-> TRUE]}
    \cup [raises : {FALSE}, title : {""},
          pages : SeqsUpTo(OutlinePages, MaxPdfPages), conforms : {TRUE}]
    \cup [raises : {FALSE}, title : {""},
          pages : {<<page>> : page \in OutlinePages}, conforms : {FALSE}]

\* INPUT_DIR.glob("*.pdf")
PdfNames == <<"a.pdf", "b.pdf">>

\* OUTPUT_DIR before the run: no file for a PDF, or the file of an earlier run
NoFile == [written |-> FALSE, old |-> FALSE]
OldFile == [written |-> FALSE, old |-> TRUE]

InitOutline ==
  /\ pp_pc = "loop"
  /\ \E n \in 0..Len(PdfNames) :
       /\ pdf_files \in [1..n -> Readers]
       /\ output_dir \in {[i \in 1..n |-> NoFile], [i \in 1..n |-> OldFile]}
  /\ pdf_index = 1
  /\ pdf_output = [title |-> "", outline |-> <<>>]
  /\ pdf_log = <<>>
  /\ ScoreIdle
  /\ ClassifyIdle
  /\ RankIdle
  /\ RunIdle
  /\ TextIdle

\* the except clauses of the loop body: the failure is printed and the loop
\* goes on with the next file
AfterFailureStop == "done"
AfterFailure == "loop"

\* the except clause taken, outcome telling which
Failed(outcome) ==
  /\ pdf_log' = Append(pdf_log, [name |-> PdfNames[pdf_index], outcome |-> outcome])
  /\ pdf_index' = pdf_index + 1
  /\ pp_pc' = AfterFailure
  /\ UNCHANGED <<pdf_files, pdf_output, output_dir>>

\* reader = PdfReader(str(pdf_file))
OpenPdf ==
  /\ pp_pc = "loop"
  /\ pdf_index <= Len(pdf_files)
  /\ IF pdf_files[pdf_index].raises
       THEN Failed("failed")
       ELSE /\ pp_pc' = "extract"
            /\ UNCHANGED <<pdf_files, pdf_index, pdf_output, output_dir, pdf_log>>
  /\ UNCHANGED call_vars
  /\ UNCHANGED run_vars

\* title = extract_title(reader); outline = extract_outline(reader)
ExtractTitleAndOutline ==
  /\ pp_pc = "extract"
  /\ IF extract_title(pdf_files[pdf_index]).raised
       THEN Failed("failed")
       ELSE /\ pdf_output' = [title |-> extract_title(pdf_files[pdf_index]).title,
                              outline |-> extract_outline(pdf_files[pdf_index])]
            /\ pp_pc' = "validate"
            /\ UNCHANGED <<pdf_files, pdf_index, output_dir, pdf_log>>
  /\ UNCHANGED call_vars
  /\ UNCHANGED run_vars

\* validate(instance=output_data, schema=schema)
ValidateOutput ==
  /\ pp_pc = "validate"
  /\ IF ~pdf_files[pdf_index].conforms
       THEN Failed("validation_failed")
       ELSE /\ pp_pc' = "write"
            /\ UNCHANGED <<pdf_files, pdf_index, pdf_output, output_dir, pdf_log>>
  /\ UNCHANGED call_vars
  /\ UNCHANGED run_vars

\* json.dump(output_data, f) into OUTPUT_DIR / stem.json
WriteOutput ==
  /\ pp_pc = "write"
  /\ output_dir' = [output_dir EXCEPT ![pdf_index] =
                      [written |-> TRUE, old |-> FALSE,
                       file |-> Stem(PdfNames[pdf_index]) \o ".json",
                       data |-> pdf_output]]
  /\ pdf_log' = Append(pdf_log, [name |-> PdfNames[pdf_index], outcome |-> "processed"])
  /\ pdf_index' = pdf_index + 1
  /\ pp_pc' = "loop"
  /\ UNCHANGED <<pdf_files, pdf_output>>
  /\ UNCHANGED call_vars
  /\ UNCHANGED run_vars

\* the for loop is exhausted and process_pdfs returns
FinishPdfs ==
  /\ pp_pc = "loop"
  /\ pdf_index > Len(pdf_files)
  /\ pp_pc' = "done"
  /\ UNCHANGED <<pdf_files, pdf_index, pdf_output, output_dir, pdf_log>>
  /\ UNCHANGED call_vars
  /\ UNCHANGED run_vars

NextOutline ==
  \/ OpenPdf
  \/ ExtractTitleAndOutline
  \/ ValidateOutput
  \/ WriteOutput
  \/ FinishPdfs

SpecOutline == InitOutline /\ [][NextOutline]_vars

(***************************************************************************)
(* Spec: process_all_collections over the three collection directories     *)
(***************************************************************************)
MaxDocs == 2

\* the list of collections taken from the last to the first
collections_reversed == <<"Collection 3", "Collection 2", "Collection 1">>

collections == <<"Collection 1", "Collection 2", "Collection 3">>

\* a page that holds only what the cleaning stages of the refiner remove
FooterPage ==
  "Page 3 of 9. Draft. More at https://example.org or from info@example.org. All rights reserved."

\* what pdfplumber does with each file of the pool: it raises, or it gives
\* the text of each page ("" where extract_text() finds none)
DocPool ==
  {[filename |-> "rome.pdf",
    parse |-> [raises |-> FALSE,
               page_texts |-> <<"Visit Rome\nHotel List\nBudget plan", "",
                                "Enjoy local food and wine in the old city centre at night.",
                                "Notes">>]],
   [filename |-> "paris.pdf",
    parse |-> [raises |-> FALSE,
               page_texts |-> <<"Visit Paris\nGroup Itinerary\nLocal Culture",
                                "Tip: book a hotel near the station early and plan your budget.",
                                "Trip",
                                FooterPage>>]],
   [filename |-> "broken.pdf",
    parse |-> [raises |-> TRUE, page_texts |-> <<>>]],
   [filename |-> "EMPTY.PDF",
    parse |-> [raises |-> FALSE, page_texts |-> <<>>]]}

NotAPdf == [filename |-> "notes.txt", parse |-> [raises |-> TRUE, page_texts |-> <<>>]]

\* os.listdir(pdf_dir): distinct files in any order
Listings ==
  {l \in SeqsUpTo(DocPool, MaxDocs) : \A i, j \in DOMAIN l : i # j => l[i] # l[j]}
  \cup {<<NotAPdf, d>> : d \in {e \in DocPool : e.filename = "rome.pdf"}}

ManifestDocuments == <<[filename |-> "rome.pdf", title |-> "Rome"]>>

\* challenge1b_input.json: two well-formed records, one without its persona,
\* one whose challenge_info is a string, one that is not JSON, and no file
\* at all; persona and job_to_be_done are objects wherever they are present
InputFiles ==
  {[kind |-> "json",
    data |-> [challenge_info |-> [challenge_id |-> "round_1b_002"],
              documents |-> ManifestDocuments,
              persona |-> [role |-> "Travel Planner"],
              job_to_be_done |-> [task |-> "Plan a trip of 4 days for a group"]]],
   [kind |-> "json",
    data |-> [challenge_info |-> [challenge_id |-> "round_1b_003"],
              documents |-> ManifestDocuments,
              persona |-> [role |-> "HR professional"],
              job_to_be_done |-> [task |-> "Create and manage fillable forms"]]],
   [kind |-> "json",
    data |-> [challenge_info |-> [challenge_id |-> "round_1b_001"],
              documents |-> ManifestDocuments,
              job_to_be_done |-> [task |-> "Plan a trip of 4 days for a group"]]],
   [kind |-> "json",
    data |-> [challenge_info |-> JsonString("challenge_id: round_1b_002"),
              documents |-> ManifestDocuments,
              persona |-> [role |-> "Travel Planner"],
              job_to_be_done |-> [task |-> "Plan a trip of 4 days for a group"]]],
   [kind |-> "invalid_json"],
   [kind |-> "missing"]}

CollectionDirs ==
  [input_file : InputFiles, pdf_dir : {TRUE}, listing : Listings]
  \cup [input_file : InputFiles, pdf_dir : {FALSE}, listing : {<<>>}]

\* the base directory before the run: which collection directories exist
\* and which hold the output of an earlier run
BaseDirs ==
  {<<"absent", "absent", "absent">>,
   <<"old", "missing", "absent">>,
   <<"absent", "old", "missing">>,
   <<"missing", "absent", "old">>}

\* the except clause of the loop body: the error is printed and the loop
\* goes on with the next collection
OnExceptionPropagate == "aborted"
OnException == "loop"

Init ==
  /\ pc = "loop"
  /\ collection_index = 1
  /\ output_file \in BaseDirs
  /\ log = <<>>
  /\ collection_dir = NoCollection
  /\ result = NoResult
  /\ clock = 1
  /\ ScoreIdle
  /\ ClassifyIdle
  /\ RankIdle
  /\ TextIdle
  /\ OutlineIdle

\* os.path.exists(collection_path) is False
CollectionNotFound ==
  /\ pc = "loop"
  /\ collection_index <= Len(collections)
  /\ output_file[collection_index] = "missing"
  /\ log' = Append(log, [collection |-> collections[collection_index],
                         outcome |-> "not_found"])
  /\ collection_index' = collection_index + 1
  /\ collection_dir' = NoCollection
  /\ result' = NoResult
  /\ UNCHANGED <<pc, output_file, clock>>
  /\ UNCHANGED call_vars
  /\ UNCHANGED outline_vars

\* os.path.exists(collection_path) is True: the directory holds some input
\* file and some PDFs
EnterCollection ==
  /\ pc = "loop"
  /\ collection_index <= Len(collections)
  /\ output_file[collection_index] # "missing"
  /\ \E d \in CollectionDirs : collection_dir' = d
  /\ result' = NoResult
  /\ pc' = "analyze"
  /\ UNCHANGED <<collection_index, output_file, log, clock>>
  /\ UNCHANGED call_vars
  /\ UNCHANGED outline_vars

\* the try block: analyze_collection, then save_output_json
AnalyzeCollection ==
  /\ pc = "analyze"
  /\ result' = analyze_collection(collection_dir, clock)
  /\ IF result'.raised
       THEN /\ pc' = OnException
            /\ log' = Append(log, [collection |-> collections[collection_index],
                                   outcome |-> "error"])
            /\ UNCHANGED output_file
       ELSE /\ pc' = "loop"
            /\ output_file' = [output_file EXCEPT ![collection_index] = "saved"]
            /\ log' = Append(log, [collection |-> collections[collection_index],
                                   outcome |-> "success"])
  /\ collection_index' = collection_index + 1
  /\ clock' = clock + 1
  /\ UNCHANGED collection_dir
  /\ UNCHANGED call_vars
  /\ UNCHANGED outline_vars

\* the for loop is exhausted and process_all_collections returns
Finish ==
  /\ pc = "loop"
  /\ collection_index > Len(collections)
  /\ pc' = "done"
  /\ UNCHANGED <<collection_index, output_file, log, collection_dir, result, clock>>
  /\ UNCHANGED call_vars
  /\ UNCHANGED outline_vars

Next ==
  \/ CollectionNotFound
  \/ EnterCollection
  \/ AnalyzeCollection
  \/ Finish

Spec == Init /\ [][Next]_vars

(***************************************************************************)
(* Claims about the relevance scorer                                       *)
(***************************************************************************)
ScoreReturned == sc_pc = "return"

\* C1: the score returned by analyze_content_relevance lies in [0.0, 1.0]
\* for every text, persona category and task description.
C1_ScoreInUnitInterval ==
  ScoreReturned => (0 <= sc_ret.score /\ sc_ret.score <= 100)

\* a call whose three loops added up more than 1.0 and returned exactly 1.0
C1_Witness ==
  /\ ScoreReturned
  /\ AccumulatedScore(sc_args.text, sc_args.persona_type,
                      sc_args.task_description).sum > 100
  /\ sc_ret.score = 100

\* the keywords of a keyword map, as a set
KeywordSet(map) == UNION {Range(map[i].keywords) : i \in DOMAIN map}

\* the identity keywords, the task keywords and the positions of the task
\* tokens that the call a matched, read off the maps and the task description
CountedMatches(a) ==
  LET text_lower == lower(a.text)
      tokens == split(lower(a.task_description))
  IN  [I |-> {k \in KeywordSet(persona_keywords[a.persona_type]) :
                Contains(k, text_lower)},
       T |-> {k \in KeywordSet(task_keywords[a.persona_type]) :
                Contains(k, text_lower)},
       F |-> {i \in DOMAIN tokens :
                Len(tokens[i]) > 3 /\ Contains(tokens[i], text_lower)},
       tokens |-> tokens,
       text_lower |-> text_lower]

\* C2: the score is min(1.0, 0.1 I + 0.2 T + 0.15 F) and the returned
\* keywords are exactly the matched keywords and task tokens.
C2_ScoreFormula ==
  ScoreReturned =>
    LET m == CountedMatches(sc_args)
    IN  /\ sc_ret.score = Min(100, 10 * Cardinality(m.I) + 20 * Cardinality(m.T)
                                     + 15 * Cardinality(m.F))
        /\ sc_ret.keywords = m.I \cup m.T \cup {m.tokens[i] : i \in m.F}

\* a call below the cap in which all three weights contributed, a task token
\* of exactly 3 characters occurs in the text, and a task token counts twice
C2_Witness ==
  /\ ScoreReturned
  /\ LET m == CountedMatches(sc_args)
     IN  /\ m.I # {} /\ m.T # {} /\ m.F # {}
         /\ sc_ret.score < 100
         /\ \E i \in DOMAIN m.tokens :
              Len(m.tokens[i]) = 3 /\ Contains(m.tokens[i], m.text_lower)
         /\ \E i, j \in m.F : i # j /\ m.tokens[i] = m.tokens[j]

IsScenarioCall ==
  /\ ScoreReturned
  /\ sc_args.text = ScenarioText
  /\ sc_args.persona_type = TRAVEL_PLANNER
  /\ sc_args.task_description = ScenarioTask

\* C10 as stated: the scenario text scores above 0 and matches
\* {"visit", "explore", "hotel", "book", "plan"}.
C10_Original ==
  IsScenarioCall =>
    /\ sc_ret.score > 0
    /\ sc_ret.keywords = {"visit", "explore", "hotel", "book", "plan"}

\* C10 (amended): the scenario text scores 0.3, above 0, and the matched
\* keywords are {"visit", "explore", "hotel"}: "book" is in no keyword map
\* of the travel planner and "plan" is not a substring of the text.
C10_ScenarioKeywords ==
  IsScenarioCall =>
    /\ sc_ret.score = 30
    /\ sc_ret.keywords = {"visit", "explore", "hotel"}

C10_Witness == IsScenarioCall

(***************************************************************************)
(* Claims about persona classification                                     *)
(***************************************************************************)
ClassifyReturned == cl_pc = "return"

HasAny(role, substrings) == \E s \in substrings : Contains(s, lower(role))

DefiningSubstrings ==
  {"travel", "planner", "hr", "professional", "food", "contractor"}

\* C8: get_persona_type returns a persona category for every role string;
\* a role with no category-defining substring gets the default category
\* (the travel planner), "Accounts Payable Clerk" is such a role, and
\* "Experienced Travel Planner" is a travel planner.
C8_ClassifyTotal ==
  ClassifyReturned =>
    /\ cl_ret \in PersonaType
    /\ ~HasAny(cl_role, DefiningSubstrings) => cl_ret = TRAVEL_PLANNER
    /\ cl_role = "Accounts Payable Clerk" =>
         (~HasAny(cl_role, DefiningSubstrings) /\ cl_ret = TRAVEL_PLANNER)
    /\ cl_role = "Experienced Travel Planner" => cl_ret = TRAVEL_PLANNER

C8_Witness ==
  ClassifyReturned /\ cl_role = "Accounts Payable Clerk" /\ cl_ret = TRAVEL_PLANNER

\* C9: classification is first-match-wins in the order travel planner,
\* HR professional, food contractor.
C9_FirstMatchWins ==
  ClassifyReturned =>
    /\ HasAny(cl_role, {"travel", "planner"}) => cl_ret = TRAVEL_PLANNER
    /\ (~HasAny(cl_role, {"travel", "planner"})
        /\ HasAny(cl_role, {"hr", "professional"})) => cl_ret = HR_PROFESSIONAL
    /\ (~HasAny(cl_role, {"travel", "planner", "hr", "professional"})
        /\ HasAny(cl_role, {"food", "contractor"})) => cl_ret = FOOD_CONTRACTOR

\* a role with defining substrings of all three categories
C9_Witness ==
  /\ ClassifyReturned
  /\ HasAny(cl_role, {"travel", "planner"})
  /\ HasAny(cl_role, {"hr", "professional"})
  /\ HasAny(cl_role, {"food", "contractor"})
  /\ cl_ret = TRAVEL_PLANNER

(***************************************************************************)
(* Claims about rank_sections_by_importance                                *)
(***************************************************************************)
RankReturned == rk_pc = "return"

\* the importance scores of the input sections, by input position
InputScores ==
  [k \in 1..Len(rk_args.sections) |->
     ImportanceScore(rk_args.sections[k], rk_args.persona_type,
                     rk_args.task_description)]

\* the place of input position k in the order "higher score first, equal
\* scores in input order"
PlaceOf(scores, k) ==
  1 + Cardinality({m \in DOMAIN scores :
                     scores[m] > scores[k] \/ (scores[m] = scores[k] /\ m < k)})

\* C3: the returned sequence is sorted by non-increasing score and sections
\* of equal score keep their relative input order.
C3_SortedStable ==
  RankReturned =>
    LET scores == InputScores
    IN  /\ Len(rk_ret) = Len(rk_args.sections)
        /\ \A i, j \in DOMAIN rk_ret : i < j => rk_ret[i].score >= rk_ret[j].score
        /\ \A k \in DOMAIN scores :
             /\ rk_ret[PlaceOf(scores, k)].section = rk_args.sections[k]
             /\ rk_ret[PlaceOf(scores, k)].score = scores[k]

\* a call in which two different sections tie and a third scores higher,
\* the higher one coming last in the input
C3_Witness ==
  /\ RankReturned
  /\ LET scores == InputScores
     IN  \E a, b, c \in DOMAIN scores :
           /\ a < b /\ b < c
           /\ scores[a] = scores[b] /\ rk_args.sections[a] # rk_args.sections[b]
           /\ scores[c] > scores[a]
           /\ PlaceOf(scores, c) < PlaceOf(scores, a)
           /\ PlaceOf(scores, a) < PlaceOf(scores, b)

\* C4 as stated: the returned sequence has at most 5 entries.
C4_Original == RankReturned => Len(rk_ret) <= 5

\* C4 (amended): rank_sections_by_importance returns one entry for every
\* input section, more than 5 when the input has more than 5: it does not
\* truncate.
C4_ReturnsEverySection ==
  RankReturned => Len(rk_ret) = Len(rk_args.sections)

C4_Witness == RankReturned /\ Len(rk_args.sections) > 5 /\ Len(rk_ret) > 5

(***************************************************************************)
(* Claims about analyze_collection and process_all_collections             *)
(***************************************************************************)
\* analyze_collection has returned an output record
Analysed == result.analysed /\ ~result.raised

extracted_sections == result.output_data.extracted_sections
subsection_analysis == result.output_data.subsection_analysis

\* how often x occurs in the sequence
Occurrences(seq, x) == Cardinality({i \in DOMAIN seq : seq[i] = x})

\* C5: after analyze_collection on a collection with N extracted sections,
\* extracted_sections holds exactly min(5, N) entries, the entry at position
\* i has importance_rank i and is the section ranked i-th, and no section
\* ranked behind an entry, omitted or not, has a strictly higher score.
C5_TopFiveInRankOrder ==
  Analysed =>
    LET all_sections == AllSections(result.pdf_data)
        ranked == result.ranked_sections
        N == Len(all_sections)
    IN  /\ Len(ranked) = N
        /\ \A k \in 1..N :
             Occurrences([i \in 1..N |-> ranked[i].section], all_sections[k])
               = Occurrences(all_sections, all_sections[k])
        /\ Len(extracted_sections) = Min(5, N)
        /\ \A i \in DOMAIN extracted_sections :
             /\ extracted_sections[i].importance_rank = i
             /\ extracted_sections[i].document = ranked[i].section.document
             /\ extracted_sections[i].section_title = ranked[i].section.title
             /\ extracted_sections[i].page_number = ranked[i].section.page_number
             /\ \A j \in (i + 1)..N : ranked[i].score >= ranked[j].score

\* a collection with more than five sections whose scores differ, where the
\* last entry ties with an omitted section
C5_Witness ==
  /\ Analysed
  /\ Len(result.ranked_sections) > 5
  /\ Len(extracted_sections) = 5
  /\ result.ranked_sections[5].score = result.ranked_sections[6].score
  /\ result.ranked_sections[1].score > result.ranked_sections[5].score

\* the parser call on the file fails, or it yields no page with text
YieldsNoPages(file) ==
  \/ file.parse.raises
  \/ \A i \in DOMAIN file.parse.page_texts : file.parse.page_texts[i] = ""

PagesWithText(file) ==
  Cardinality({i \in DOMAIN file.parse.page_texts : file.parse.page_texts[i] # ""})

IsPdfName(file) == endswith(lower(file.filename), ".pdf")

WellFormedInput(input_file) ==
  input_file.kind = "json" /\ ~ValidationFails(input_file.data)

\* C6: with a well-formed input record analyze_collection returns whatever
\* the parser does with the documents; a document whose parser call fails
\* or yields no pages has no section in the ranking, no extracted section
\* and no summary; every other document has its pages and its sections in
\* pdf_data and all its sections in the ranking.
C6_FailedDocumentIsolated ==
  (result.analysed /\ WellFormedInput(collection_dir.input_file)) =>
    /\ ~result.raised
    /\ \A k \in DOMAIN collection_dir.listing :
         LET file == collection_dir.listing[k]
         IN  IsPdfName(file) =>
               IF YieldsNoPages(file)
                 THEN /\ \A i \in DOMAIN result.ranked_sections :
                           result.ranked_sections[i].section.document # file.filename
                      /\ \A i \in DOMAIN extracted_sections :
                           extracted_sections[i].document # file.filename
                      /\ \A i \in DOMAIN subsection_analysis :
                           subsection_analysis[i].document # file.filename
                 ELSE \E d \in DOMAIN result.pdf_data :
                        /\ result.pdf_data[d].filename = file.filename
                        /\ Len(result.pdf_data[d].pages) = PagesWithText(file)
                        /\ Len(result.pdf_data[d].sections)
                             = Cardinality({i \in DOMAIN result.ranked_sections :
                                  result.ranked_sections[i].section.document
                                    = file.filename})

\* a collection whose first document fails to parse and whose second one
\* has a section and a summary in the output
C6_Witness ==
  /\ Analysed
  /\ Len(collection_dir.listing) = 2
  /\ collection_dir.listing[1].parse.raises
  /\ IsPdfName(collection_dir.listing[1])
  /\ \E i \in DOMAIN extracted_sections :
       extracted_sections[i].document = collection_dir.listing[2].filename
  /\ \E i \in DOMAIN subsection_analysis :
       subsection_analysis[i].document = collection_dir.listing[2].filename

\* C7: process_all_collections never ends on an exception: every collection
\* of the list gets its turn whatever happened to the ones before it, a
\* collection whose analyze_collection raises is logged as an error, and a
\* collection analysed after it has its output saved.
C7_ErrorIsContained ==
  /\ pc \in {"loop", "analyze", "done"}
  /\ Len(log) = collection_index - 1
  /\ pc = "done" => Len(log) = Len(collections)
  /\ \A i \in DOMAIN log : log[i].collection = collections[i]
  /\ result.analysed =>
       IF result.raised
         THEN log[Len(log)].outcome = "error"
         ELSE /\ log[Len(log)].outcome = "success"
              /\ output_file[Len(log)] = "saved"
  /\ \A i \in DOMAIN log : log[i].outcome = "success" => output_file[i] = "saved"

\* a run that returned after an input record made analyze_collection raise
\* for one collection and the next collection was analysed and saved
C7_Witness ==
  /\ pc = "done"
  /\ \E i \in 1..(Len(log) - 1) :
       /\ log[i].outcome = "error"
       /\ log[i + 1].outcome = "success"
       /\ output_file[i + 1] = "saved"

(***************************************************************************)
(* Claims about the scorer that compare the scores of two texts            *)
(***************************************************************************)
\* the position of the first occurrence of k in t, 0 when there is none
FirstOccurrence(k, t) ==
  LET at == {i \in 1..(Len(t) - Len(k) + 1) : SubSeq(t, i, i + Len(k) - 1) = k}
  IN  IF at = {} THEN 0 ELSE CHOOSE i \in at : \A j \in at : i <= j

\* t with the occurrences of k taken out, from left to right
RECURSIVE Without(_, _)
Without(t, k) ==
  LET i == FirstOccurrence(k, t)
  IN  IF k = "" \/ i = 0 THEN t
      ELSE SubSeq(t, 1, i - 1) \o Without(SubSeq(t, i + Len(k), Len(t)), k)

\* the task tokens long enough to count
FreeTerms(task_description) ==
  {term \in Range(split(lower(task_description))) : Len(term) > 3}

\* every string the scorer looks for in a call with these arguments
SearchedStrings(a) ==
  KeywordSet(persona_keywords[a.persona_type])
    \cup KeywordSet(task_keywords[a.persona_type])
    \cup FreeTerms(a.task_description)

\* the searched strings that occur in text_lower
FoundIn(a, text_lower) == {k \in SearchedStrings(a) : Contains(k, text_lower)}

\* the weights configured for k: one for each role it has in the call a
WeightsOf(a, k) ==
  (IF k \in KeywordSet(persona_keywords[a.persona_type]) THEN {10} ELSE {})
    \cup (IF k \in KeywordSet(task_keywords[a.persona_type]) THEN {20} ELSE {})
    \cup (IF k \in FreeTerms(a.task_description) THEN {15} ELSE {})

\* the score of the call a made on another text
ScoreOn(a, text) ==
  analyze_content_relevance(text, a.persona_type, a.task_description).score

\* C11 as stated: for every keyword k in the text, the score is at least the
\* score of the text without k plus the weight of k.
C11_Original ==
  ScoreReturned =>
    \A k \in FoundIn(sc_args, lower(sc_args.text)) :
      \A w \in WeightsOf(sc_args, k) :
        sc_ret.score >= ScoreOn(sc_args, Without(lower(sc_args.text), k)) + w

\* C11 (amended): for every keyword k in the text, the score is at least
\* min(1.0, score of the text without k + weight of k), provided taking k
\* out leaves no occurrence of k and brings no other keyword into the text.
C11_KeywordAddsWeightUpToCap ==
  ScoreReturned =>
    \A k \in FoundIn(sc_args, lower(sc_args.text)) :
      LET without == Without(lower(sc_args.text), k)
      IN  FoundIn(sc_args, without) \subseteq (FoundIn(sc_args, lower(sc_args.text)) \ {k})
            => \A w \in WeightsOf(sc_args, k) :
                 sc_ret.score >= Min(100, ScoreOn(sc_args, without) + w)

\* a call at the cap whose text without one of its keywords is still within
\* the keyword's weight of the cap
C11_Witness ==
  /\ ScoreReturned
  /\ sc_ret.score = 100
  /\ \E k \in FoundIn(sc_args, lower(sc_args.text)) :
       LET without == Without(lower(sc_args.text), k)
       IN  /\ FoundIn(sc_args, without) \subseteq (FoundIn(sc_args, lower(sc_args.text)) \ {k})
           /\ \E w \in WeightsOf(sc_args, k) :
                /\ ScoreOn(sc_args, without) + w > 100
                /\ ScoreOn(sc_args, without) < 100

\* the sum of f over the set S
RECURSIVE SumOver(_, _)
SumOver(f, S) ==
  IF S = {} THEN 0
  ELSE LET x == CHOOSE y \in S : TRUE IN f[x] + SumOver(f, S \ {x})

\* the largest of the weights configured for k
LargestWeight(a, k) ==
  CHOOSE w \in WeightsOf(a, k) : \A v \in WeightsOf(a, k) : v <= w

\* what k adds to the score: its weight once for every entry of the identity
\* map, entry of the task map and task token equal to it
WeightPerEntry(a, k) ==
  10 * Occurrences(KeywordList(persona_keywords[a.persona_type]), k)
    + 20 * Occurrences(KeywordList(task_keywords[a.persona_type]), k)
    + 15 * (IF Len(k) > 3 THEN Occurrences(split(lower(a.task_description)), k) ELSE 0)

\* k occurs at two places of the text that do not overlap
OccursTwice(k, t) ==
  \E i, j \in 1..(Len(t) - Len(k) + 1) :
    /\ i + Len(k) <= j
    /\ SubSeq(t, i, i + Len(k) - 1) = k
    /\ SubSeq(t, j, j + Len(k) - 1) = k

\* C12 as stated: the text repeated twice scores what the text scores, and
\* no keyword string adds more than its weight to the score.
C12_Original ==
  ScoreReturned =>
    /\ ScoreOn(sc_args, sc_args.text \o sc_args.text) = sc_ret.score
    /\ sc_ret.score <=
         SumOver([k \in sc_ret.keywords |-> LargestWeight(sc_args, k)], sc_ret.keywords)

\* C12 (amended): the text repeated twice scores what the text scores unless
\* the repetition brings a new keyword into the text, and each matched
\* keyword string adds its weight once for every entry of the identity map,
\* entry of the task map and task token equal to it, up to the cap.
C12_CountedOncePerEntry ==
  ScoreReturned =>
    /\ FoundIn(sc_args, lower(sc_args.text \o sc_args.text)) = sc_ret.keywords
         => ScoreOn(sc_args, sc_args.text \o sc_args.text) = sc_ret.score
    /\ sc_ret.score =
         Min(100, SumOver([k \in sc_ret.keywords |-> WeightPerEntry(sc_args, k)],
                          sc_ret.keywords))

\* a call below the cap on a text in which a keyword of both maps occurs
\* twice
C12_Witness ==
  /\ ScoreReturned
  /\ sc_ret.score < 100
  /\ FoundIn(sc_args, lower(sc_args.text \o sc_args.text)) = sc_ret.keywords
  /\ \E k \in sc_ret.keywords :
       /\ OccursTwice(k, lower(sc_args.text))
       /\ WeightPerEntry(sc_args, k) > LargestWeight(sc_args, k)

(***************************************************************************)
(* Claims about the importance score of a section                          *)
(***************************************************************************)
\* min(1.0, 0.1 I + 0.2 T + 0.15 F) for one text, read off the maps
RelevanceOf(text, persona_type, task_description) ==
  LET m == CountedMatches([text |-> text, persona_type |-> persona_type,
                           task_description |-> task_description])
  IN  Min(100, 10 * Cardinality(m.I) + 20 * Cardinality(m.T) + 15 * Cardinality(m.F))

TitleOf(section) == IF "title" \in DOMAIN section THEN section.title ELSE ""
BodyOf(section) == IF "content" \in DOMAIN section THEN section.content ELSE ""

TitleRelevance(section) ==
  RelevanceOf(TitleOf(section), rk_args.persona_type, rk_args.task_description)
BodyRelevance(section) ==
  RelevanceOf(BodyOf(section), rk_args.persona_type, rk_args.task_description)

\* C13: the importance score of every ranked section is 0.4 x score(title)
\* + 0.6 x score(body), a missing title or body being scored as the empty
\* string (scores in thousandths).
C13_ImportanceIsWeightedSum ==
  RankReturned =>
    /\ Len(rk_ret) = Len(rk_args.sections)
    /\ \A i \in DOMAIN rk_ret :
         rk_ret[i].score = 4 * TitleRelevance(rk_ret[i].section)
                             + 6 * BodyRelevance(rk_ret[i].section)

\* a ranking with a section without title that scores above 0, and one whose
\* title scores higher than its body, both above 0
C13_Witness ==
  /\ RankReturned
  /\ \E i \in DOMAIN rk_ret :
       /\ "title" \notin DOMAIN rk_ret[i].section
       /\ "content" \in DOMAIN rk_ret[i].section
       /\ rk_ret[i].score > 0
  /\ \E i \in DOMAIN rk_ret :
       /\ BodyRelevance(rk_ret[i].section) > 0
       /\ TitleRelevance(rk_ret[i].section) > BodyRelevance(rk_ret[i].section)

(***************************************************************************)
(* Claims about subsection_analysis                                        *)
(***************************************************************************)
RunPersona == get_persona_type(collection_dir.input_file.data.persona.role)
RunTask == collection_dir.input_file.data.job_to_be_done.task

\* the summary the refiner makes of a page in this run
SummaryOf(page) ==
  create_actionable_summary(page.text, _get_content_type(RunPersona))

\* the page has an entry in subsection_analysis, with this text
HasEntry(page, refined_text) ==
  \E i \in DOMAIN subsection_analysis :
    /\ subsection_analysis[i].document = page.document
    /\ subsection_analysis[i].page_number = page.page_number
    /\ subsection_analysis[i].refined_text = refined_text

\* at least TopPages other pages are at least as relevant as this one
OutsideTopPages(page, pages) ==
  Cardinality({i \in DOMAIN pages :
                 /\ pages[i] # page
                 /\ RelevanceOf(pages[i].text, RunPersona, RunTask)
                      >= RelevanceOf(page.text, RunPersona, RunTask)}) >= 5

\* what C14 says of one page, given its summary
FilteredByLength(page, refined_text, pages) ==
  IF Len(refined_text) > 50
    THEN HasEntry(page, refined_text) \/ OutsideTopPages(page, pages)
    ELSE \A i \in DOMAIN subsection_analysis :
           ~(/\ subsection_analysis[i].document = page.document
             /\ subsection_analysis[i].page_number = page.page_number)

\* C14: every refined_text of the output is longer than 50 characters and is
\* the summary of its page; a page whose summary has 50 characters or fewer
\* has no entry, a page with a longer summary has one unless five other
\* pages rank before it; the analysis does not raise.
C14_OnlyLongSummaries ==
  (result.analysed /\ WellFormedInput(collection_dir.input_file)) =>
    /\ ~result.raised
    /\ \A i \in DOMAIN subsection_analysis :
         /\ Len(subsection_analysis[i].refined_text) > 50
         /\ \E p \in Range(AllPages(result.pdf_data)) :
              HasEntry(p, SummaryOf(p)) /\ p.document = subsection_analysis[i].document
                /\ p.page_number = subsection_analysis[i].page_number
    /\ \A p \in Range(AllPages(result.pdf_data)) :
         FilteredByLength(p, SummaryOf(p), AllPages(result.pdf_data))

\* an analysis in which one page has a summary of 1 to 50 characters and no
\* entry, and another page has an entry
C14_Witness ==
  /\ Analysed
  /\ subsection_analysis # <<>>
  /\ \E p \in Range(AllPages(result.pdf_data)) :
       /\ SummaryOf(p) # ""
       /\ Len(SummaryOf(p)) <= 50
       /\ ~OutsideTopPages(p, AllPages(result.pdf_data))
       /\ \A i \in DOMAIN subsection_analysis :
            subsection_analysis[i].page_number # p.page_number
              \/ subsection_analysis[i].document # p.document

(***************************************************************************)
(* Claims about create_actionable_summary                                  *)
(***************************************************************************)
RefineReturned == tx_pc = "return" /\ "content_type" \in DOMAIN tx_args

\* the spans the extractors of the content type find in the text
ExtractedFields(text, content_type) ==
  LET info == CASE content_type = "travel" -> _extract_travel_info(text)
                [] content_type = "hr" -> _extract_hr_info(text)
                [] content_type = "food" -> _extract_food_info(text)
                [] OTHER -> [none |-> <<>>]
  IN  UNION {Range(info[field]) : field \in DOMAIN info}

\* C15: create_actionable_summary returns the empty string or a string of at
\* most max_summary_length (500) characters, unless one extracted field is
\* itself longer than that.
C15_SummaryWithinMaxLength ==
  RefineReturned =>
    \/ tx_ret = ""
    \/ Len(tx_ret) <= max_summary_length
    \/ \E f \in ExtractedFields(tx_args.text, tx_args.content_type) :
         Len(f) > max_summary_length

(***************************************************************************)
(* Claims about running analyze_collection again                           *)
(***************************************************************************)
\* an output record with its processing_timestamp blanked
WithoutTimestamp(output_data) ==
  [output_data EXCEPT !.metadata.processing_timestamp = 0]

\* the second run leaves the same record as the first one but for the timestamp
SameButTimestamp(second) ==
  /\ second.analysed /\ ~second.raised
  /\ WithoutTimestamp(second.output_data) = WithoutTimestamp(result.output_data)

SegmentReturned == tx_pc = "return" /\ "text" \in DOMAIN tx_args

\* the lines of the page
LinesOfPage == SplitOn(tx_args.text, "\n")

\* the positions of the lines of the page that are detected as headers
DetectedHeaders ==
  {i \in DOMAIN LinesOfPage : _is_section_header(LinesOfPage[i])}

\* the position of the first detected header after line i, or one past the
\* last line
NextHeaderAfter(i) ==
  IF \E j \in DetectedHeaders : j > i
    THEN CHOOSE j \in DetectedHeaders :
           j > i /\ \A k \in DetectedHeaders : k > i => j <= k
    ELSE Len(LinesOfPage) + 1

\* the lines i .. j of the page as one text, blanks at its ends cut off
LinesAsText(i, j) == strip(Join("\n", SubSeq(LinesOfPage, i, j)))

\* C17: every detected header line opens exactly one section, in page order,
\* whose title is that line and whose body is the lines after it up to, but
\* excluding, the next header line or the end of the page (title and body
\* without the blanks at their ends); a page with no header line produces
\* zero sections.
C17_OneSectionPerHeader ==
  SegmentReturned =>
    /\ Len(tx_ret) = Cardinality(DetectedHeaders)
    /\ \A i \in DetectedHeaders :
         LET k == Cardinality({j \in DetectedHeaders : j <= i})
         IN  /\ tx_ret[k].start_line = i - 1
             /\ tx_ret[k].title = strip(LinesOfPage[i])
             /\ tx_ret[k].content = LinesAsText(i + 1, NextHeaderAfter(i) - 1)
    /\ DetectedHeaders = {} => tx_ret = <<>>

\* a page with two headers, the first with a body of one line, then the
\* second header and a body after it
C17_Witness ==
  /\ SegmentReturned
  /\ Len(tx_ret) = 2
  /\ tx_ret[1].content # ""
  /\ tx_ret[2].content # ""
  /\ tx_ret[2].start_line = 2

\* line i of the page lies in the k-th section returned: at or after its
\* header and before the header of the next section
InSection(i, k) ==
  /\ tx_ret[k].start_line + 1 <= i
  /\ k < Len(tx_ret) => i <= tx_ret[k + 1].start_line

\* C18 as stated: on a page with a header every line of text belongs to a
\* section, the lines before the first header included.
C18_Original ==
  (SegmentReturned /\ DetectedHeaders # {}) =>
    \A i \in DOMAIN LinesOfPage :
      strip(LinesOfPage[i]) # "" => \E k \in DOMAIN tx_ret : InSection(i, k)

\* C18 (amended): every section starts at a detected header; a line at or
\* after the first header belongs to exactly one section, the one of the
\* last header at or before it, and a line before the first header of the
\* page belongs to no section.
C18_SectionsStartAtHeaders ==
  SegmentReturned =>
    /\ \A k \in DOMAIN tx_ret : tx_ret[k].start_line + 1 \in DetectedHeaders
    /\ \A i \in DOMAIN LinesOfPage :
         IF \E h \in DetectedHeaders : h <= i
           THEN Cardinality({k \in DOMAIN tx_ret : InSection(i, k)}) = 1
           ELSE \A k \in DOMAIN tx_ret : ~InSection(i, k)

\* a page that begins with a line of text that is no header and has a
\* header further down
C18_Witness ==
  /\ SegmentReturned
  /\ tx_ret # <<>>
  /\ strip(LinesOfPage[1]) # ""
  /\ 1 \notin DetectedHeaders
  /\ tx_ret[1].start_line > 0


(***************************************************************************)
(* C19: the five rules of a header candidate                               *)
(***************************************************************************)
HeaderReturned == tx_pc = "return" /\ "line" \in DOMAIN tx_args

\* the line the rules are read on: the argument without the blanks at its ends
RuleLine == strip(tx_args.line)

AllUpperRule == isupper(RuleLine) /\ Len(RuleLine) > 3

PrefixRule == \E p \in {"Chapter", "Section", "Part"} : startswith(RuleLine, p)

ShortTitleRule == Len(split(RuleLine)) <= 8 /\ Len(RuleLine) > 10

TopicWordRule == \E keyword \in HeaderKeywords : Contains(keyword, lower(RuleLine))

\* every word of the line is capitalised or is one of the small words
EveryWordTitleCase ==
  /\ split(RuleLine) # <<>>
  /\ \A k \in DOMAIN split(RuleLine) :
       \/ IsUpperChar(CharAt(split(RuleLine)[k], 1))
       \/ lower(split(RuleLine)[k]) \in TitleCaseSmallWords

\* the title-case test of the code: the line moreover starts with an
\* upper-case letter and holds at least one space
StrictTitleCase ==
  /\ EveryWordTitleCase
  /\ IsUpperChar(CharAt(RuleLine, 1))
  /\ \E i \in 1..Len(RuleLine) : CharAt(RuleLine, i) = " "

\* C19 as stated: _is_section_header returns true exactly when the line is
\* all upper-case and longer than 3, or starts with Chapter, Section or Part,
\* or has at most 8 words and more than 10 characters, or contains a topic
\* word, or has every word capitalised or in the set of small words.
C19_Original ==
  HeaderReturned =>
    (tx_ret <=> (AllUpperRule \/ PrefixRule \/ ShortTitleRule
                   \/ TopicWordRule \/ EveryWordTitleCase))

\* C19 amended: _is_section_header returns true exactly when one of the five
\* rules holds of the stripped line, the title-case rule asking moreover that
\* the line starts with an upper-case letter and contains a space.
C19_HeaderExactlyOnRule ==
  HeaderReturned =>
    (tx_ret <=> (AllUpperRule \/ PrefixRule \/ ShortTitleRule
                   \/ TopicWordRule \/ StrictTitleCase))

\* a line accepted by the title-case rule alone has returned true
C19_Witness ==
  /\ HeaderReturned
  /\ tx_ret
  /\ StrictTitleCase
  /\ ~(AllUpperRule \/ PrefixRule \/ ShortTitleRule \/ TopicWordRule)

(***************************************************************************)
(* C20: the sentences of the fallback summary                              *)
(***************************************************************************)
\* the sentences of a text: its pieces between . ! ? runs, stripped, not empty
SentencesOf(text) ==
  SelectSeq(StripEach(split_sentences(text)), LAMBDA x : x # "")

\* s is t with some of its elements left out, the others in the same order
RECURSIVE IsSubsequence(_, _)
IsSubsequence(s, t) ==
  IF s = <<>> THEN TRUE
  ELSE IF t = <<>> THEN FALSE
  ELSE IF Head(s) = Head(t) THEN IsSubsequence(Tail(s), Tail(t))
  ELSE IsSubsequence(s, Tail(t))

\* C20: when no structured field matches, the summary returned by
\* create_actionable_summary holds at most 5 sentences of the text, in the
\* same relative order as in the text.
C20_FallbackKeepsSourceOrder ==
  (RefineReturned /\ ExtractedFields(tx_args.text, tx_args.content_type) = {}) =>
    /\ Len(SentencesOf(tx_ret)) <= TopSentences
    /\ IsSubsequence(SentencesOf(tx_ret), SentencesOf(tx_args.text))

(***************************************************************************)
(* C21: what the refined texts of the output are free of                   *)
(***************************************************************************)
\* C21: no refined_text of subsection_analysis holds a boilerplate phrase, a
\* page-number token, a URL or an email address, the refiner having removed
\* them from the page text before the summary is made.
C21_RefinedTextIsCleaned ==
  Analysed =>
    \A i \in DOMAIN subsection_analysis :
      /\ ~HasPdfArtifact(subsection_analysis[i].refined_text)
      /\ ~HasAddress(subsection_analysis[i].refined_text)

(***************************************************************************)
(* C22: the scorer, the segmenter and the refiner on blank text            *)
(***************************************************************************)
\* C22: on the empty string and on a string of white space only, the scorer
\* returns score 0 with no keyword, the segmenter returns no section and
\* create_actionable_summary returns the empty string, whatever the persona,
\* the task and the content type.
C22_TotalOnBlankText ==
  /\ (ScoreReturned /\ AllWhitespace(sc_args.text)) =>
       sc_ret = [score |-> 0, keywords |-> {}]
  /\ (SegmentReturned /\ ~RefineReturned /\ AllWhitespace(tx_args.text)) =>
       tx_ret = <<>>
  /\ (RefineReturned /\ AllWhitespace(tx_args.text)) => tx_ret = ""

\* the travel summary of a text of blanks and line breaks has returned
C22_Witness ==
  /\ RefineReturned
  /\ tx_args.text = " \n \n"
  /\ tx_args.content_type = "travel"
  /\ tx_ret = ""

(***************************************************************************)
(* C23: the output record and validate_output                              *)
(***************************************************************************)
\* C23: every output record analyze_collection returns passes
\* validate_output: its metadata has input_documents, persona,
\* job_to_be_done and processing_timestamp, each extracted_sections entry has
\* document, section_title, importance_rank and page_number, each
\* subsection_analysis entry has document, refined_text and page_number.
C23_OutputPassesValidation ==
  Analysed =>
    /\ validate_output(result.output_data)
    /\ {"input_documents", "persona", "job_to_be_done", "processing_timestamp"}
         \subseteq DOMAIN result.output_data.metadata
    /\ \A i \in DOMAIN extracted_sections :
         {"document", "section_title", "importance_rank", "page_number"}
           \subseteq DOMAIN extracted_sections[i]
    /\ \A i \in DOMAIN subsection_analysis :
         {"document", "refined_text", "page_number"}
           \subseteq DOMAIN subsection_analysis[i]

\* an output record with entries in both lists
C23_Witness ==
  /\ Analysed
  /\ Len(extracted_sections) >= 2
  /\ Len(subsection_analysis) >= 2
  /\ validate_output(result.output_data)

(***************************************************************************)
(* C24: the manifest is validated before anything is analysed              *)
(***************************************************************************)
\* the JSON value is an object that has the key
HasField(value, key) == ~IsJsonString(value) /\ key \in DOMAIN value

\* the requirements on a manifest: the four fields, challenge_id in
\* challenge_info, role in persona, task in job_to_be_done, and documents a
\* non-empty list of records that each have a filename
MeetsRequirements(input_file) ==
  /\ input_file.kind = "json"
  /\ \A field \in {"challenge_info", "documents", "persona", "job_to_be_done"} :
       HasField(input_file.data, field)
  /\ HasField(input_file.data.challenge_info, "challenge_id")
  /\ HasField(input_file.data.persona, "role")
  /\ HasField(input_file.data.job_to_be_done, "task")
  /\ input_file.data.documents # <<>>
  /\ \A i \in DOMAIN input_file.data.documents :
       HasField(input_file.data.documents[i], "filename")

\* C24: load_input_json raises exactly on the manifests that do not meet the
\* requirements, and for such a manifest analyze_collection raises with
\* nothing ranked and no output record.
C24_ValidatedBeforeAnalysis ==
  result.analysed =>
    /\ load_input_json(collection_dir.input_file).raised
         <=> ~MeetsRequirements(collection_dir.input_file)
    /\ ~MeetsRequirements(collection_dir.input_file) =>
         /\ result.raised
         /\ result.ranked_sections = <<>>
         /\ result.output_data = NoOutput

(***************************************************************************)
(* C25: the document and the page of each entry of the output              *)
(***************************************************************************)
\* the files of the directory the parser reads pages from
ParsedFiles ==
  {f \in Range(collection_dir.listing) : IsPdfName(f) /\ ~f.parse.raises}

\* page n of the file yielded text
YieldedText(f, n) == n \in DOMAIN f.parse.page_texts /\ f.parse.page_texts[n] # ""

\* the entry names page n of file f, which has a section with its title
SectionComesFrom(entry, f, n) ==
  /\ entry.document = f.filename
  /\ entry.page_number = n
  /\ YieldedText(f, n)
  /\ \E s \in Range(extract_sections_from_text(strip(f.parse.page_texts[n]))) :
       s.title = entry.section_title

\* the entry names page n of file f, and its text is the summary of that page
SummaryComesFrom(entry, f, n) ==
  /\ entry.document = f.filename
  /\ entry.page_number = n
  /\ YieldedText(f, n)
  /\ entry.refined_text =
       create_actionable_summary(strip(f.parse.page_texts[n]),
                                 _get_content_type(RunPersona))

\* C25: each extracted_sections entry and each subsection_analysis entry
\* names one parsed file of the collection and a page of that file that
\* yielded text, and was made from the text of that page.
C25_EntriesCarryTheirDocument ==
  Analysed =>
    /\ \A i \in DOMAIN extracted_sections :
         /\ Cardinality({f \in ParsedFiles :
                           f.filename = extracted_sections[i].document}) = 1
         /\ \E f \in ParsedFiles :
              SectionComesFrom(extracted_sections[i], f, extracted_sections[i].page_number)
    /\ \A i \in DOMAIN subsection_analysis :
         /\ Cardinality({f \in ParsedFiles :
                           f.filename = subsection_analysis[i].document}) = 1
         /\ \E f \in ParsedFiles :
              SummaryComesFrom(subsection_analysis[i], f, subsection_analysis[i].page_number)

\* two documents in the output, one entry being the summary of the page of
\* rome.pdf that follows a page without text
C25_Witness ==
  /\ Analysed
  /\ \E i, j \in DOMAIN extracted_sections :
       extracted_sections[i].document # extracted_sections[j].document
  /\ \E i \in DOMAIN subsection_analysis :
       /\ subsection_analysis[i].document = "rome.pdf"
       /\ subsection_analysis[i].page_number = 3

(***************************************************************************)
(* C26: the destinations of travel content                                 *)
(***************************************************************************)
\* the spans _extract_travel_info files under destinations
Destinations == _extract_travel_info(tx_args.text).destinations

\* every word of the span starts with an upper-case letter
IsProperNoun(span) ==
  /\ split(span) # <<>>
  /\ \A k \in DOMAIN split(span) : IsUpperChar(CharAt(split(span)[k], 1))

\* the span stands in the text right after one of the four verbs and blanks
FollowsVerb(span, text) ==
  \E verb \in {"visit", "go to", "see", "explore"} :
    \E i \in 1..Len(text) :
      \E j \in (i + Len(verb) + 1)..Len(text) :
        /\ lower(SubSeq(text, i, i + Len(verb) - 1)) = verb
        /\ AllWhitespace(SubSeq(text, i + Len(verb), j - 1))
        /\ j + Len(span) - 1 <= Len(text)
        /\ SubSeq(text, j, j + Len(span) - 1) = span

\* C26: for travel content every span extracted as a destination follows
\* 'visit', 'go to', 'see' or 'explore' and consists only of words that
\* start with an upper-case letter.
C26_DestinationsAreProperNouns ==
  (RefineReturned /\ tx_args.content_type = "travel") =>
    \A k \in DOMAIN Destinations :
      FollowsVerb(Destinations[k], tx_args.text) /\ IsProperNoun(Destinations[k])

(***************************************************************************)
(* C27: the outline extract_outline returns                                *)
(***************************************************************************)
\* extract_outline has returned for the file being processed
OutlineExtracted == pp_pc \in {"validate", "write"}

\* the lines of each page of the file being processed
LinesOfPdfPages ==
  [p \in DOMAIN pdf_files[pdf_index].pages |->
     splitlines(pdf_files[pdf_index].pages[p])]

\* the places <<page, line>> of the lines is_heading accepts
HeadingPlaces(lines) ==
  UNION {{<<p, l>> : l \in {k \in DOMAIN lines[p] : is_heading(lines[p][k])}} :
           p \in DOMAIN lines}

\* the place of h among the heading places, in page order then line order
PlaceInOutline(h, places) ==
  1 + Cardinality({g \in places : g[1] < h[1] \/ (g[1] = h[1] /\ g[2] < h[2])})

\* the entry is the one of a heading line, stripped, found on the page
EntryOfLine(entry, clean_line, page) ==
  /\ entry.text = clean_line
  /\ entry.page = page
  /\ Len(clean_line) < 20 => entry.level = "H1"
  /\ (20 <= Len(clean_line) /\ Len(clean_line) < 40) => entry.level = "H2"
  /\ Len(clean_line) >= 40 => entry.level = "H3"

\* the outline has one entry per place, in page order then line order
OutlineOfPlaces(outline, lines, places) ==
  /\ Len(outline) = Cardinality(places)
  /\ \A h \in places :
       EntryOfLine(outline[PlaceInOutline(h, places)], strip(lines[h[1]][h[2]]), h[1])

\* C27: the outline has one entry per line accepted by is_heading, in page
\* order then line order; its text is the stripped line, its level is H1
\* below 20 characters, H2 from 20 and below 40, H3 otherwise, and its page
\* is the 1-based index of the page.
C27_OutlineLevelsAndOrder ==
  OutlineExtracted =>
    OutlineOfPlaces(pdf_output.outline, LinesOfPdfPages, HeadingPlaces(LinesOfPdfPages))

\* an outline over two pages that has the lines of 19, 20, 39 and 40
\* characters at the levels H1, H2, H2 and H3
C27_Witness ==
  /\ OutlineExtracted
  /\ Len(pdf_files[pdf_index].pages) = 2
  /\ \E i, j, k, l \in DOMAIN pdf_output.outline :
       /\ i < j /\ j < k /\ k < l
       /\ pdf_output.outline[i] = [level |-> "H1", text |-> Line19, page |-> 2]
       /\ pdf_output.outline[j] = [level |-> "H2", text |-> Line20, page |-> 2]
       /\ pdf_output.outline[k] = [level |-> "H2", text |-> Line39, page |-> 2]
       /\ pdf_output.outline[l] = [level |-> "H3", text |-> Line40, page |-> 2]
  /\ pdf_output.outline[1].page = 1

(***************************************************************************)
(* C28: process_pdfs writes a file only for a validated record             *)
(***************************************************************************)
\* reading the file, extracting its title or validating its record fails
PdfFails(reader) ==
  reader.raises \/ extract_title(reader).raised \/ ~reader.conforms

\* the loop body has been left for the file at position i
Handled(i) == i < pdf_index

\* each file written holds the record of a PDF that was read, extracted and
\* validated; a handled PDF that fails has the file it had before the run,
\* or none; every other handled PDF has its file; on return every PDF has
\* been handled
WrittenOnlyWhenValid ==
  /\ \A i \in DOMAIN pdf_files :
       output_dir[i].written =>
         /\ Handled(i)
         /\ ~PdfFails(pdf_files[i])
         /\ output_dir[i].data.title = extract_title(pdf_files[i]).title
         /\ output_dir[i].data.outline = extract_outline(pdf_files[i])
  /\ \A i \in DOMAIN pdf_files :
       (Handled(i) /\ PdfFails(pdf_files[i])) => output_dir[i] \in {NoFile, OldFile}
  /\ \A i \in DOMAIN pdf_files :
       (Handled(i) /\ ~PdfFails(pdf_files[i])) => output_dir[i].written
  /\ pp_pc = "done" => \A i \in DOMAIN pdf_files : Handled(i)

\* a step changes OUTPUT_DIR only from the position after validate(), for a
\* record that conforms to the schema, and only for the file of that PDF
WriteFollowsValidation ==
  output_dir' # output_dir =>
    /\ pp_pc = "write"
    /\ pdf_files[pdf_index].conforms
    /\ \A i \in DOMAIN output_dir : i # pdf_index => output_dir'[i] = output_dir[i]

\* C28: the output file of a PDF is written only after its record passed
\* validation; a PDF whose reading, extraction or validation fails gets no
\* file written, and the PDFs after it are still processed.
C28_WriteOnlyAfterValidation ==
  []WrittenOnlyWhenValid /\ [][WriteFollowsValidation]_vars

\* process_pdfs has returned: the first PDF failed validation and keeps the
\* file of an earlier run, the second has its file written
C28_Witness ==
  /\ pp_pc = "done"
  /\ Len(pdf_files) = 2
  /\ ~pdf_files[1].conforms
  /\ output_dir[1] = OldFile
  /\ output_dir[2].written
  /\ pdf_output.outline # <<>>

(***************************************************************************)
(* C29: subsection_analysis and the five highest-ranked pages              *)
(***************************************************************************)
\* the relevance of each page of the run, in discovery order
PageScores(pages) ==
  [i \in DOMAIN pages |-> RelevanceOf(pages[i].text, RunPersona, RunTask)]

\* the rank of page i: pages of higher score come first, and among pages of
\* equal score the one discovered first
RankOfPage(i, scores) ==
  1 + Cardinality({j \in DOMAIN scores :
                     scores[j] > scores[i] \/ (scores[j] = scores[i] /\ j < i)})

\* the page the entry names
PageOfEntry(entry, pages) ==
  CHOOSE i \in DOMAIN pages :
    pages[i].document = entry.document /\ pages[i].page_number = entry.page_number

\* the entries name pages of rank 1 to 5, in the order of their ranks
FromTopFivePages(entries, pages, scores) ==
  /\ Len(entries) <= 5
  /\ \A k \in DOMAIN entries :
       /\ \E i \in DOMAIN pages :
            pages[i].document = entries[k].document
              /\ pages[i].page_number = entries[k].page_number
       /\ RankOfPage(PageOfEntry(entries[k], pages), scores) <= 5
  /\ \A k, l \in DOMAIN entries :
       k < l => /\ RankOfPage(PageOfEntry(entries[k], pages), scores)
                     < RankOfPage(PageOfEntry(entries[l], pages), scores)
                /\ scores[PageOfEntry(entries[k], pages)]
                     >= scores[PageOfEntry(entries[l], pages)]

\* C29: subsection_analysis has at most 5 entries; each names one of the five
\* highest-ranked pages (descending score, ties in discovery order), so a
\* page ranked sixth or lower never appears; the entries are in rank order,
\* hence by non-increasing page score.
C29_OnlyTopFivePages ==
  Analysed =>
    FromTopFivePages(subsection_analysis, AllPages(result.pdf_data),
                     PageScores(AllPages(result.pdf_data)))

\* seven pages; FooterPage has a summary of more than 50 characters and is
\* not in the output, which has fewer than five entries
C29_Witness ==
  /\ Analysed
  /\ Len(AllPages(result.pdf_data)) = 7
  /\ Len(subsection_analysis) \in 1..4
  /\ Len(SummaryOf([text |-> FooterPage])) > 50
  /\ \A k \in DOMAIN subsection_analysis :
       subsection_analysis[k].refined_text # SummaryOf([text |-> FooterPage])

(***************************************************************************)
(* C30: the order of the collections and when an output is saved           *)
(***************************************************************************)
\* the collections handled so far are Collection 1, 2, 3 in this order, and
\* one whose directory is missing or whose analysis raised has no output
\* saved
HandledInOrder ==
  /\ Len(log) <= 3
  /\ \A i \in DOMAIN log :
       /\ log[i].collection = <<"Collection 1", "Collection 2", "Collection 3">>[i]
       /\ log[i].outcome \in {"not_found", "error"} => output_file[i] # "saved"
       /\ log[i].outcome = "not_found" <=> output_file[i] = "missing"

\* a step changes an output file only by saving the output of the
\* collection whose analysis has just returned without raising
SaveFollowsAnalysis ==
  output_file' # output_file =>
    /\ pc = "analyze"
    /\ result'.analysed /\ ~result'.raised
    /\ output_file' = [output_file EXCEPT ![collection_index] = "saved"]

\* C30: the collections are handled in the order Collection 1, Collection 2,
\* Collection 3; an output file is written only once analyze_collection has
\* returned for its collection without raising; when the directory is
\* missing or the analysis raises nothing is saved and a file already
\* present is left as it is.
C30_SaveOnlyAfterAnalysis ==
  []HandledInOrder /\ [][SaveFollowsAnalysis]_vars

\* a run has returned: the first directory was missing, the second
\* collection was analysed and saved, the analysis of the third raised and
\* the output of an earlier run is still there
C30_Witness ==
  /\ pc = "done"
  /\ log[1].outcome = "not_found"
  /\ log[2].outcome = "success"
  /\ output_file[2] = "saved"
  /\ log[3].outcome = "error"
  /\ output_file[3] = "old"
=============================================================================
